---- MODULE Spec2Model ----
(***************************************************************************)
(* Model of the labyrinth game (makimaki510151/labyrinth): the image-to-   *)
(* maze decoder parseMazeFromImage, the Maze and Player classes, the       *)
(* progress store GameState and the controller MazeGame.                   *)
(* Line numbers refer to src/unnamed/part_000 unless said otherwise;       *)
(* src/script.js is an earlier version of the same program in which the    *)
(* levels are listed in MAZE_CONFIG and decoded on first use.              *)
(* Behaviours: SpecDecode (decoder), SpecPlayer and SpecMaze (moves and    *)
(* queries), SpecStore (progress store), SpecGame (the game of part_000),  *)
(* SpecDiscovery (level discovery), SpecLazy (the game of src/script.js),  *)
(* SpecCamera (cell size and camera window), SpecWalled (moves in mazes    *)
(* with a closed border), SpecInput (keys, control buttons and their       *)
(* interval), SpecRender and SpecScriptRender (the cells painted by        *)
(* render in part_000 and in src/script.js), SpecLazyCleared (the game of  *)
(* src/script.js from the moment level 1 is completed), SpecOld (the       *)
(* handlers of src/unnamed/part_001, the first version, whose control      *)
(* buttons call movePlayer on click) and SpecGuard (SpecGame with calls of *)
(* startLevel for levels beyond maxLevel).                                 *)
(***************************************************************************)
EXTENDS Integers, Sequences, FiniteSets, TLC

\* ------------------------------------------------------------------ bounds
MaxPixels == 4     \* most pixels (width x height) of a bitmap given to the decoder
MaxLevel == 2      \* level numbers whose files are decoded
MaxPlayPixels == 3 \* most cells (width x height) of a maze a session is played on
MaxSteps == 3      \* move calls made in one modelled session
MaxProbe == 1      \* isWall / isValidMove are queried up to this far outside the maze
MaxGameMoves == 4  \* key presses and control-button presses of one behaviour of the game
MaxCameraExtra == 2 \* the widest maze shown is MAX_VISIBLE_CELLS + MaxCameraExtra cells wide
MaxCameraMoves == 1 \* moves made after a level was started in front of the camera
MaxLazyMoves == 1  \* key presses of one behaviour of the lazily decoding script
MaxDecodes == 3    \* decodes started by one page load of the lazily decoding script
MaxStoreCells == 2 \* cells a path handed to the progress store is drawn from
MaxInterior == 2    \* most pixels inside the closed border of a walled level image
MaxInputMoves == 3  \* movePlayer calls made by keys, control buttons and interval ticks
MaxRenderMoves == 2 \* moves made after a level was started and rendered
MaxOldMoves == 3     \* movePlayer calls made by keys and button clicks in part_001
MaxBeyond == 2       \* startLevel is called for up to this many levels beyond maxLevel

\* --------------------------------------------------------------- constants
Null == [null |-> TRUE]

\* COLOR_MAP, lines 142-147
COLOR_MAP == [WALL  |-> "0,0,0",
              PATH  |-> "255,255,255",
              START |-> "0,0,255",
              GOAL  |-> "255,0,0"]

\* pixel colours the enumerated images are painted with
Black     == <<0, 0, 0>>
White     == <<255, 255, 255>>
Blue      == <<0, 0, 255>>
Red       == <<255, 0, 0>>
NearBlack == <<0, 0, 1>>
Palette   == {Black, White, Blue, Red, NearBlack}
PlayPalette == {Black, White, Blue, Red}

VARIABLES
    level,     \* level number whose file is being decoded
    file,      \* maps/<level>.png: a bitmap, or absent
    result,    \* settled promise of parseMazeFromImage, Null before
    maze,      \* MazeGame.maze
    mazeLevel, \* the level whose image the maze in play was decoded from
    player,    \* MazeGame.player
    calls,     \* the Player.move calls made so far: arguments, receiver before
               \* and after, return value
    probe,     \* the last isWall / isValidMove query and its answers
    files,     \* the maps folder: level number -> bitmap or absent
    gameState, \* MazeGame.gameState: currentLevel, maxLevel, progress, currentScreen
    parsedMazes, \* MazeGame.parsedMazes: level -> cached descriptor
    storage,   \* localStorage item 'mazeGameProgress': JSON text, Null when unset
    pending,   \* the set of async calls suspended at await parseMazeFromImage(...)
    decodes,   \* parseMazeFromImage invocations of this page load, in order
    discovery, \* loop variables of determineMaxLevel and whether it still runs;
               \* Null in src/script.js, which has no discovery
    cellSize,  \* MazeGame.cellSize
    view,      \* cell window and draw offset computed by the last renderMaze
    moves,     \* movement keys and control buttons pressed so far
    lastPath,  \* the last getCompletedPath call, the Set it returned and the Set
               \* that had been handed to completeLevel for that level
    lastLoad,  \* the last startLevel that ended in its catch block
    written,   \* level key -> the Set handed to the latest completeLevel of that level
    nextBtn,   \* style.display of next-level-btn ('' until completeLevel sets it)
    moveTimer, \* the direction repeated by the running interval, or Null
    lastMove,  \* the last movePlayer call: its screen, its direction and the
               \* sounds it played
    lastInput, \* the last keydown, control button press or interval tick and
               \* the movePlayer call it made
    frame      \* the cells painted by the last render, with the maze and the
               \* player they were painted for

decodeVars == <<level, file, result>>
callVars == <<calls, probe>>
gameVars == <<files, gameState, parsedMazes, storage, pending, decodes,
              discovery, cellSize, view, moves, lastPath, lastLoad, written, nextBtn,
              moveTimer, lastMove, lastInput, frame>>

vars == <<level, file, result, maze, mazeLevel, player, calls, probe, files, gameState,
          parsedMazes, storage, pending, decodes, discovery, cellSize, view,
          moves, lastPath, lastLoad, written, nextBtn, moveTimer, lastMove, lastInput,
          frame>>

\* ------------------------------------------------------------------ images
\* ImageData of a w x h bitmap: 4 bytes (R,G,B,A) per pixel, row-major
\* (getImageData, lines 175-176); pix maps the pixel index y*w+x to a colour.
ImageOf(w, h, pix) ==
    [exists |-> TRUE, width |-> w, height |-> h,
     data |-> [k \in 1..(4 * w * h) |->
                 LET i == (k - 1) \div 4
                     c == (k - 1) % 4
                 IN  IF c = 3 THEN 255 ELSE pix[i][c + 1]]]

NoFile == [exists |-> FALSE]

\* every bitmap of at most maxPixels pixels painted with the colours of pal
ImagesOver(pal, maxPixels) ==
    UNION {{ImageOf(d[1], d[2], pix) : pix \in [0..(d[1] * d[2] - 1) -> pal]}
             : d \in {e \in (1..maxPixels) \X (1..maxPixels) :
                         e[1] * e[2] <= maxPixels}}

\* getMazeConfig, lines 136-139
getMazeConfig(lv) == [filename |-> "maps/" \o ToString(lv) \o ".png"]

\* ----------------------------------------------------------------- decoder
\* `${r},${g},${b}`, line 190
ColorKey(r, g, b) == ToString(r) \o "," \o ToString(g) \o "," \o ToString(b)

\* ClassifyPixel with the start branch also assigning the goal
ClassifyPixelStartSetsGoal(acc, colorKey, x, y) ==
    IF colorKey = COLOR_MAP.WALL
      THEN [acc EXCEPT !.walls = Append(@, [x |-> x, y |-> y])]
    ELSE IF colorKey = COLOR_MAP.START
      THEN [acc EXCEPT !.start = [x |-> x, y |-> y], !.goal = [x |-> x, y |-> y]]
    ELSE IF colorKey = COLOR_MAP.GOAL
      THEN [acc EXCEPT !.goal = [x |-> x, y |-> y]]
    ELSE acc

\* ClassifyPixel taking every colour that is not path, start or goal for a wall
ClassifyPixelDefaultWall(acc, colorKey, x, y) ==
    IF colorKey = COLOR_MAP.START
      THEN [acc EXCEPT !.start = [x |-> x, y |-> y]]
    ELSE IF colorKey = COLOR_MAP.GOAL
      THEN [acc EXCEPT !.goal = [x |-> x, y |-> y]]
    ELSE IF colorKey = COLOR_MAP.PATH
      THEN acc
    ELSE [acc EXCEPT !.walls = Append(@, [x |-> x, y |-> y])]

\* the if / else-if chain of lines 192-198 applied to one pixel
ClassifyPixel(acc, colorKey, x, y) ==
    IF colorKey = COLOR_MAP.WALL
      THEN [acc EXCEPT !.walls = Append(@, [x |-> x, y |-> y])]
    ELSE IF colorKey = COLOR_MAP.START
      THEN [acc EXCEPT !.start = [x |-> x, y |-> y]]
    ELSE IF colorKey = COLOR_MAP.GOAL
      THEN [acc EXCEPT !.goal = [x |-> x, y |-> y]]
    ELSE acc

\* ScanPixels with the loops exchanged: x outside, y inside
RECURSIVE ScanPixelsColumnMajor(_, _, _, _)
ScanPixelsColumnMajor(img, y, x, acc) ==
    IF x >= img.width THEN acc
    ELSE IF y >= img.height THEN ScanPixelsColumnMajor(img, 0, x + 1, acc)
    ELSE LET i == (y * img.width + x) * 4
             r == img.data[i + 1]
             g == img.data[i + 2]
             b == img.data[i + 3]
         IN  ScanPixelsColumnMajor(img, y + 1, x,
                                   ClassifyPixel(acc, ColorKey(r, g, b), x, y))

\* the nested scan loops, lines 183-201
RECURSIVE ScanPixels(_, _, _, _)
ScanPixels(img, y, x, acc) ==
    IF y >= img.height THEN acc
    ELSE IF x >= img.width THEN ScanPixels(img, y + 1, 0, acc)
    ELSE LET i == (y * img.width + x) * 4
             r == img.data[i + 1]
             g == img.data[i + 2]
             b == img.data[i + 3]
         IN  ScanPixels(img, y, x + 1, ClassifyPixel(acc, ColorKey(r, g, b), x, y))

\* MissingLandmarkMessage without the image URL (the text of src/script.js:199)
MissingLandmarkMessageNoUrl(imageUrl) ==
    "maze start(blue: 0,0,255) or goal(red: 255,0,0) was not found, check the image"

\* message of the Error thrown at line 205
MissingLandmarkMessage(imageUrl) ==
    "maze image " \o imageUrl
        \o " start(blue: 0,0,255) or goal(red: 255,0,0) was not found"

\* message of the Error of img.onerror, line 224
ImageLoadMessage(imageUrl) ==
    "maze image " \o imageUrl \o " could not be loaded"

\* LandmarkMissing failing only when both landmarks are absent
LandmarkMissingBoth(acc) == acc.start = Null /\ acc.goal = Null

\* the check of line 203
LandmarkMissing(acc) == acc.start = Null \/ acc.goal = Null

\* parseMazeFromImage, lines 154-229: the value the promise settles with
parseMazeFromImage(imageUrl, img) ==
    IF ~img.exists
      THEN [ok |-> FALSE, error |-> ImageLoadMessage(imageUrl)]
    ELSE LET acc == ScanPixels(img, 0, 0,
                               [walls |-> <<>>, start |-> Null, goal |-> Null])
         IN  IF LandmarkMissing(acc)
               THEN [ok |-> FALSE, error |-> MissingLandmarkMessage(imageUrl)]
               ELSE [ok |-> TRUE,
                     data |-> [width |-> img.width, height |-> img.height,
                               start |-> acc.start, goal |-> acc.goal,
                               walls |-> acc.walls]]

\* -------------------------------------------------------------------- Maze
\* `${x},${y}`, lines 242, 247, 282, 288
CellKey(x, y) == ToString(x) \o "," \o ToString(y)

\* Maze.constructor, lines 272-285
NewMaze(data) ==
    [width |-> data.width, height |-> data.height,
     start |-> data.start, goal |-> data.goal,
     walls |-> {CellKey(data.walls[k].x, data.walls[k].y)
                  : k \in 1..Len(data.walls)}]

\* Maze.isWall, lines 287-289
isWall(m, x, y) == CellKey(x, y) \in m.walls

\* isValidMove with inclusive upper bounds
isValidMoveInclusive(m, x, y) ==
    x >= 0 /\ x <= m.width /\ y >= 0 /\ y <= m.height /\ ~isWall(m, x, y)

\* Maze.isValidMove, lines 291-293
isValidMove(m, x, y) ==
    x >= 0 /\ x < m.width /\ y >= 0 /\ y < m.height /\ ~isWall(m, x, y)

\* ------------------------------------------------------------------ Player
\* markVisited keeping only the current cell
markVisitedOnlyCurrent(p) ==
    [p EXCEPT !.visitedCells = {CellKey(p.x, p.y)}]

\* Player.markVisited, lines 241-243
markVisited(p) ==
    [p EXCEPT !.visitedCells = @ \cup {CellKey(p.x, p.y)}]

\* Player.hasVisited, lines 246-248
hasVisited(p, x, y) == CellKey(x, y) \in p.visitedCells

\* the constructor without its markVisited call
NewPlayerUnmarked(startX, startY) ==
    [x |-> startX, y |-> startY, visitedCells |-> {}]

\* Player.constructor, lines 233-238
NewPlayer(startX, startY) ==
    markVisited([x |-> startX, y |-> startY, visitedCells |-> {}])

\* move rejecting out-of-bounds targets too (isValidMove in place of isWall)
moveBoundsChecked(p, dx, dy, m) ==
    LET newX == p.x + dx
        newY == p.y + dy
    IN  IF isValidMove(m, newX, newY)
          THEN [player |-> markVisited([p EXCEPT !.x = newX, !.y = newY]),
                ret |-> TRUE]
          ELSE [player |-> p, ret |-> FALSE]

\* move recording the target cell before the wall test
moveMarksCandidate(p, dx, dy, m) ==
    LET newX == p.x + dx
        newY == p.y + dy
        q == [p EXCEPT !.visitedCells = @ \cup {CellKey(newX, newY)}]
    IN  IF ~isWall(m, newX, newY)
          THEN [player |-> [q EXCEPT !.x = newX, !.y = newY], ret |-> TRUE]
          ELSE [player |-> q, ret |-> FALSE]

\* move calling markVisited before the position is updated
moveMarksBeforeUpdate(p, dx, dy, m) ==
    LET newX == p.x + dx
        newY == p.y + dy
    IN  IF ~isWall(m, newX, newY)
          THEN [player |-> [markVisited(p) EXCEPT !.x = newX, !.y = newY],
                ret |-> TRUE]
          ELSE [player |-> p, ret |-> FALSE]

\* move stepping into walls as well
moveIgnoresWalls(p, dx, dy, m) ==
    [player |-> markVisited([p EXCEPT !.x = p.x + dx, !.y = p.y + dy]),
     ret |-> TRUE]

\* Player.move, lines 251-262: the receiver afterwards and the return value
move(p, dx, dy, m) ==
    LET newX == p.x + dx
        newY == p.y + dy
    IN  IF ~isWall(m, newX, newY)
          THEN [player |-> markVisited([p EXCEPT !.x = newX, !.y = newY]),
                ret |-> TRUE]
          ELSE [player |-> p, ret |-> FALSE]

\* isAtGoal answering true wherever the player stands
isAtGoalAnywhere(p, m) == TRUE

\* Player.isAtGoal, lines 265-267
isAtGoal(p, m) == p.x = m.goal.x /\ p.y = m.goal.y

\* --------------------------------------------------------------- GameState
\* MAX_CHECK_LIMIT, line 328
MAX_CHECK_LIMIT == 99

\* {} : an object without properties
EmptyObject == <<>>

\* Array.from(pathSet), line 100 (a Set lists its members once each; the order,
\* insertion order in the program, is fixed here by CHOOSE)
RECURSIVE ArrayFrom(_)
ArrayFrom(S) ==
    IF S = {} THEN <<>>
    ELSE LET e == CHOOSE m \in S : TRUE
         IN  <<e>> \o ArrayFrom(S \ {e})

\* new Set(array), line 115
SetFrom(a) == {a[k] : k \in 1..Len(a)}

\* JSON text as its sequence of tokens
JPunct(c) == <<"punct", c>>
JString(str) == <<"string", str>>
JLiteral(word) == <<"literal", word>>

\* JSON.stringify of an array of strings, all elements but the last
RECURSIVE StringifyElementsDropsLast(_, _)
StringifyElementsDropsLast(a, k) ==
    IF k >= Len(a) THEN <<>>
    ELSE (IF k > 1 THEN <<JPunct(",")>> ELSE <<>>)
            \o <<JString(a[k])>> \o StringifyElementsDropsLast(a, k + 1)

\* JSON.stringify of an array of strings: the elements from the k-th on
RECURSIVE StringifyElements(_, _)
StringifyElements(a, k) ==
    IF k > Len(a) THEN <<>>
    ELSE (IF k > 1 THEN <<JPunct(",")>> ELSE <<>>)
            \o <<JString(a[k])>> \o StringifyElements(a, k + 1)

\* JSON.stringify of { completed: ..., path: [...] }
StringifyEntry(e) ==
    <<JPunct("{"), JString("completed"), JPunct(":"),
      JLiteral(IF e.completed THEN "true" ELSE "false"), JPunct(","),
      JString("path"), JPunct(":"), JPunct("[")>>
        \o StringifyElements(e.path, 1) \o <<JPunct("]"), JPunct("}")>>

\* the property key a level number is turned into by progress[level]
LevelKeys == [n \in 1..MAX_CHECK_LIMIT |-> ToString(n)]

\* own keys of the progress object; integer keys are listed in ascending order
OwnKeys(obj) == SelectSeq(LevelKeys, LAMBDA k : k \in DOMAIN obj)

RECURSIVE StringifyMembers(_, _, _)
StringifyMembers(obj, keys, k) ==
    IF k > Len(keys) THEN <<>>
    ELSE (IF k > 1 THEN <<JPunct(",")>> ELSE <<>>)
            \o <<JString(keys[k]), JPunct(":")>> \o StringifyEntry(obj[keys[k]])
            \o StringifyMembers(obj, keys, k + 1)

\* JSON.stringify(this.progress), line 94
JSONstringify(progress) ==
    <<JPunct("{")>> \o StringifyMembers(progress, OwnKeys(progress), 1)
        \o <<JPunct("}")>>

\* JSON.parse, line 89: the value that starts at token i and the index after it
RECURSIVE ParseValue(_, _)
RECURSIVE ParseMembers(_, _, _)
RECURSIVE ParseElements(_, _, _)
ParseValue(t, i) ==
    IF t[i] = JPunct("{")
      THEN IF t[i + 1] = JPunct("}")
             THEN [v |-> EmptyObject, next |-> i + 2]
             ELSE ParseMembers(t, i + 1, EmptyObject)
    ELSE IF t[i] = JPunct("[")
      THEN IF t[i + 1] = JPunct("]")
             THEN [v |-> <<>>, next |-> i + 2]
             ELSE ParseElements(t, i + 1, <<>>)
    ELSE IF t[i][1] = "string"
      THEN [v |-> t[i][2], next |-> i + 1]
    ELSE [v |-> (t[i][2] = "true"), next |-> i + 1]

\* members of an object: t[i] is a key, t[i + 1] the colon
ParseMembers(t, i, obj) ==
    LET val == ParseValue(t, i + 2)
        obj2 == (t[i][2] :> val.v) @@ obj
    IN  IF t[val.next] = JPunct(",")
          THEN ParseMembers(t, val.next + 1, obj2)
          ELSE [v |-> obj2, next |-> val.next + 1]

\* elements of an array
ParseElements(t, i, arr) ==
    LET val == ParseValue(t, i)
        arr2 == Append(arr, val.v)
    IN  IF t[val.next] = JPunct(",")
          THEN ParseElements(t, val.next + 1, arr2)
          ELSE [v |-> arr2, next |-> val.next + 1]

JSONparse(text) == ParseValue(text, 1).v

\* GameState.loadProgress, lines 86-90
loadProgress(saved) ==
    IF saved # Null THEN JSONparse(saved) ELSE EmptyObject

\* GameState.constructor, lines 72-78
NewGameState(saved) ==
    [currentLevel |-> 1, maxLevel |-> 0, progress |-> loadProgress(saved),
     currentScreen |-> "title"]

\* GameState.saveProgress, lines 93-95: the new value of the storage item
saveProgress(gs) == JSONstringify(gs.progress)

\* completeLevel starting a new progress object with the one entry
completeLevelResetsProgress(gs, lv, pathSet) ==
    LET pathArray == ArrayFrom(pathSet)
        gs2 == [gs EXCEPT !.progress =
                   (LevelKeys[lv] :> [completed |-> TRUE, path |-> pathArray])]
    IN  [gameState |-> gs2, storage |-> saveProgress(gs2)]

\* completeLevel calling saveProgress before the entry is written
completeLevelSavesFirst(gs, lv, pathSet) ==
    LET pathArray == ArrayFrom(pathSet)
        gs2 == [gs EXCEPT !.progress =
                   (LevelKeys[lv] :> [completed |-> TRUE, path |-> pathArray]) @@ @]
    IN  [gameState |-> gs2, storage |-> saveProgress(gs)]

\* GameState.completeLevel, lines 98-109: the state and the storage item afterwards
completeLevel(gs, lv, pathSet) ==
    LET pathArray == ArrayFrom(pathSet)
        gs2 == [gs EXCEPT !.progress =
                   (LevelKeys[lv] :> [completed |-> TRUE, path |-> pathArray]) @@ @]
    IN  [gameState |-> gs2, storage |-> saveProgress(gs2)]

\* truthiness of this.progress[level]
HasProgress(gs, lv) ==
    lv \in DOMAIN LevelKeys /\ LevelKeys[lv] \in DOMAIN gs.progress

\* GameState.getCompletedPath, lines 112-117
getCompletedPath(gs, lv) ==
    IF HasProgress(gs, lv)
      THEN SetFrom(gs.progress[LevelKeys[lv]].path)
      ELSE {}

\* isLevelUnlocked looking at the level itself
isLevelUnlockedSelf(gs, lv) ==
    lv = 1 \/ (HasProgress(gs, lv) /\ gs.progress[LevelKeys[lv]].completed)

\* GameState.isLevelUnlocked, lines 120-123 (truthiness of the result)
isLevelUnlocked(gs, lv) ==
    lv = 1 \/ (HasProgress(gs, lv - 1) /\ gs.progress[LevelKeys[lv - 1]].completed)

\* GameState.isLevelCompleted, lines 126-128 (truthiness of the result)
isLevelCompleted(gs, lv) ==
    HasProgress(gs, lv) /\ gs.progress[LevelKeys[lv]].completed

\* ------------------------------------------------------------------ camera
\* lines 7-9
CONTAINER_SIZE == 500
MIN_CELL_SIZE == 20
MAX_VISIBLE_CELLS == 25

\* Math.min, Math.max on integers
MathMin(a, b) == IF a <= b THEN a ELSE b
MathMax(a, b) == IF a >= b THEN a ELSE b

\* pixel lengths are fractions num/den in lowest terms, den > 0
RECURSIVE GCD(_, _)
GCD(a, b) == IF b = 0 THEN a ELSE GCD(b, a % b)

Abs(a) == IF a < 0 THEN -a ELSE a

Frac(n, d) ==
    LET g == GCD(Abs(n), d)
    IN  [num |-> n \div g, den |-> d \div g]

FracLeq(a, b) == a.num * b.den <= b.num * a.den
FracMin(a, b) == IF FracLeq(a, b) THEN a ELSE b
FracMax(a, b) == IF FracLeq(a, b) THEN b ELSE a
FracTimes(k, a) == Frac(k * a.num, a.den)
FracMinus(a, b) == Frac(a.num * b.den - b.num * a.den, a.den * b.den)
FracPlus(a, b) == Frac(a.num * b.den + b.num * a.den, a.den * b.den)
FracHalf(a) == Frac(a.num, 2 * a.den)

\* the test of lines 720 and 852: the whole maze fits the window
FitsView(m) == m.width <= MAX_VISIBLE_CELLS /\ m.height <= MAX_VISIBLE_CELLS

\* the cell size taken from the shorter side of the maze
levelCellSizeShortSide(m) ==
    LET fixedVisibleCellSize == Frac(CONTAINER_SIZE, MAX_VISIBLE_CELLS)
        maxFitCellSize == FracMax(Frac(CONTAINER_SIZE, m.width),
                                  Frac(CONTAINER_SIZE, m.height))
    IN  IF FitsView(m)
          THEN FracMax(Frac(MIN_CELL_SIZE, 1), maxFitCellSize)
          ELSE FracMax(Frac(MIN_CELL_SIZE, 1), fixedVisibleCellSize)

\* startLevel, lines 714-728: this.cellSize for the maze just built
levelCellSize(m) ==
    LET fixedVisibleCellSize == Frac(CONTAINER_SIZE, MAX_VISIBLE_CELLS)
        maxFitCellSize == FracMin(Frac(CONTAINER_SIZE, m.width),
                                  Frac(CONTAINER_SIZE, m.height))
    IN  IF FitsView(m)
          THEN FracMax(Frac(MIN_CELL_SIZE, 1), maxFitCellSize)
          ELSE FracMax(Frac(MIN_CELL_SIZE, 1), fixedVisibleCellSize)

\* renderMaze, lines 834-883: the cell window and the drawing offset
renderMaze(m, p, cs) ==
    LET W_MAZE == m.width
        H_MAZE == m.height
        W_VIEW == MAX_VISIBLE_CELLS
        H_VIEW == MAX_VISIBLE_CELLS
        HALF_VIEW == W_VIEW \div 2
        canvas == Frac(CONTAINER_SIZE, 1)
    IN  IF W_MAZE <= W_VIEW /\ H_MAZE <= H_VIEW
          THEN [startX |-> 0, startY |-> 0,
                endX |-> W_MAZE - 1, endY |-> H_MAZE - 1,
                offsetX |-> FracHalf(FracMinus(canvas, FracTimes(W_MAZE, cs))),
                offsetY |-> FracHalf(FracMinus(canvas, FracTimes(H_MAZE, cs)))]
          ELSE LET viewPortStartX ==
                       MathMin(W_MAZE - W_VIEW, MathMax(0, p.x - HALF_VIEW))
                   viewPortStartY ==
                       MathMin(H_MAZE - H_VIEW, MathMax(0, p.y - HALF_VIEW))
               IN  [startX |-> viewPortStartX, startY |-> viewPortStartY,
                    endX |-> viewPortStartX + W_VIEW - 1,
                    endY |-> viewPortStartY + H_VIEW - 1,
                    offsetX |-> FracTimes(-viewPortStartX, cs),
                    offsetY |-> FracTimes(-viewPortStartY, cs)]

\* the controller is not running
NoGame ==
    /\ files = Null
    /\ gameState = Null
    /\ parsedMazes = Null
    /\ storage = Null
    /\ pending = {}
    /\ decodes = <<>>
    /\ discovery = Null
    /\ cellSize = Null
    /\ view = Null
    /\ moves = 0
    /\ lastPath = Null
    /\ lastLoad = Null
    /\ moveTimer = Null
    /\ lastMove = Null
    /\ lastInput = Null
    /\ frame = Null
    /\ written = <<>>
    /\ nextBtn = ""

\* ------------------------------------------------------ decoder behaviours
Levels == 1..MaxLevel

InitDecode ==
    /\ level \in Levels
    /\ file \in ImagesOver(Palette, MaxPixels) \cup {NoFile}
    /\ result = Null
    /\ maze = Null
    /\ mazeLevel = Null
    /\ player = Null
    /\ calls = <<>>
    /\ probe = Null
    /\ NoGame

\* parseMazeFromImage(getMazeConfig(level).filename) settles
ParseMaze ==
    /\ result = Null
    /\ result' = parseMazeFromImage(getMazeConfig(level).filename, file)
    /\ UNCHANGED <<level, file, maze, mazeLevel, player, calls, probe>>
    /\ UNCHANGED gameVars

\* new Maze(mazeData), line 703
ConstructMaze ==
    /\ result # Null
    /\ result.ok
    /\ maze = Null
    /\ mazeLevel = Null
    /\ maze' = NewMaze(result.data)
    /\ mazeLevel' = level
    /\ UNCHANGED <<level, file, result, player, calls, probe>>
    /\ UNCHANGED gameVars

NextDecode == ParseMaze \/ ConstructMaze

SpecDecode == InitDecode /\ [][NextDecode]_vars

\* ------------------------------------------------------- player behaviours
\* a session is played on a maze that decoded successfully
InitPlayer ==
    /\ level \in {1}
    /\ file \in ImagesOver(PlayPalette, MaxPlayPixels)
    /\ result = parseMazeFromImage(getMazeConfig(level).filename, file)
    /\ result.ok
    /\ maze = Null
    /\ mazeLevel = Null
    /\ player = Null
    /\ calls = <<>>
    /\ probe = Null
    /\ NoGame

\* lines 703-704: new Maze(mazeData); new Player(maze.start.x, maze.start.y)
StartSession ==
    /\ player = Null
    /\ maze' = NewMaze(result.data)
    /\ mazeLevel' = level
    /\ player' = NewPlayer(maze'.start.x, maze'.start.y)
    /\ UNCHANGED <<level, file, result, calls, probe>>
    /\ UNCHANGED gameVars

\* dx and dy of a move call: one step at most on each axis
Deltas == {-1, 0, 1}

\* the four directions of handleGameKeyPress (lines 750-768) and controlButtons
Directions == {<<0, -1>>, <<0, 1>>, <<-1, 0>>, <<1, 0>>}

\* this.player.move(dx, dy, this.maze), line 778
Move(dx, dy) ==
    /\ player # Null
    /\ Len(calls) < MaxSteps
    /\ LET r == move(player, dx, dy, maze)
       IN  /\ player' = r.player
           /\ calls' = Append(calls, [dx |-> dx, dy |-> dy, before |-> player,
                                      after |-> r.player, ret |-> r.ret])
    /\ UNCHANGED <<level, file, result, maze, mazeLevel, probe>>
    /\ UNCHANGED gameVars

NextPlayer ==
    \/ StartSession
    \/ \E dx \in Deltas, dy \in Deltas : Move(dx, dy)

SpecPlayer == InitPlayer /\ [][NextPlayer]_vars

\* bitmaps whose border pixels are all black and whose interior, of at most
\* MaxInterior pixels, is painted with the colours of PlayPalette
WalledImages ==
    UNION {{ImageOf(d[1], d[2],
                    [i \in 0..(d[1] * d[2] - 1) |->
                        LET x == i % d[1]
                            y == i \div d[1]
                        IN  IF x = 0 \/ x = d[1] - 1 \/ y = 0 \/ y = d[2] - 1
                              THEN Black
                              ELSE inner[(y - 1) * (d[1] - 2) + (x - 1)]])
              : inner \in [0..((d[1] - 2) * (d[2] - 2) - 1) -> PlayPalette]}
             : d \in {e \in (3..(MaxInterior + 2)) \X (3..(MaxInterior + 2)) :
                         (e[1] - 2) * (e[2] - 2) <= MaxInterior}}

\* a level whose image has a closed border has been decoded
InitWalled ==
    /\ level \in {1}
    /\ file \in WalledImages
    /\ result = parseMazeFromImage(getMazeConfig(level).filename, file)
    /\ result.ok
    /\ maze = Null
    /\ mazeLevel = Null
    /\ player = Null
    /\ calls = <<>>
    /\ probe = Null
    /\ NoGame

\* the moves the keys and the control buttons make
NextWalled ==
    \/ StartSession
    \/ \E d \in Directions : Move(d[1], d[2])

SpecWalled == InitWalled /\ [][NextWalled]_vars

\* --------------------------------------------------------- maze behaviours
\* maze.isWall(x, y) and maze.isValidMove(x, y) asked of a constructed maze
Probe ==
    /\ maze # Null
    /\ \E x \in (-MaxProbe)..(maze.width + MaxProbe - 1),
          y \in (-MaxProbe)..(maze.height + MaxProbe - 1) :
          probe' = [x |-> x, y |-> y,
                    isWall |-> isWall(maze, x, y),
                    isValidMove |-> isValidMove(maze, x, y)]
    /\ UNCHANGED <<level, file, result, maze, mazeLevel, player, calls>>
    /\ UNCHANGED gameVars

NextMaze == ConstructMaze \/ Probe

SpecMaze == InitPlayer /\ [][NextMaze]_vars

\* the Set last handed to completeLevel for a level, {} when there was none
WrittenPath(lv) ==
    IF LevelKeys[lv] \in DOMAIN written THEN written[LevelKeys[lv]] ELSE {}

\* ------------------------------------------------- progress store behaviours
\* the "x,y" keys the paths handed to the store are made of
StoreCells == {CellKey(x, 1 - x) : x \in (-1)..(MaxStoreCells - 2)}

\* new GameState() on a browser without saved progress
InitStore ==
    /\ level = 1
    /\ file = NoFile
    /\ result = Null
    /\ maze = Null
    /\ mazeLevel = Null
    /\ player = Null
    /\ calls = <<>>
    /\ probe = Null
    /\ files = Null
    /\ storage = Null
    /\ gameState = NewGameState(storage)
    /\ parsedMazes = Null
    /\ pending = {}
    /\ decodes = <<>>
    /\ discovery = Null
    /\ cellSize = Null
    /\ view = Null
    /\ moves = 0
    /\ lastPath = Null
    /\ lastLoad = Null
    /\ moveTimer = Null
    /\ lastMove = Null
    /\ lastInput = Null
    /\ frame = Null
    /\ written = <<>>
    /\ nextBtn = ""

storeFrame ==
    UNCHANGED <<level, file, result, maze, mazeLevel, player, calls, probe, files,
                parsedMazes, pending, decodes, discovery, cellSize, view,
                moves, lastLoad, moveTimer, lastMove, lastInput, frame>>

\* gameState.completeLevel(level, pathSet)
StoreComplete ==
    /\ \E lv \in Levels, pathSet \in SUBSET StoreCells :
          LET r == completeLevel(gameState, lv, pathSet)
          IN  /\ gameState' = r.gameState
              /\ storage' = r.storage
              /\ written' = (LevelKeys[lv] :> pathSet) @@ written
              /\ UNCHANGED nextBtn
    /\ UNCHANGED lastPath
    /\ storeFrame

\* the page is loaded again: new GameState() reads the storage item
StoreReload ==
    /\ gameState' = NewGameState(storage)
    /\ UNCHANGED <<storage, written, nextBtn, lastPath>>
    /\ storeFrame

\* gameState.getCompletedPath(level), isLevelUnlocked(level) and
\* isLevelCompleted(level), as updateLevelGrid asks them (lines 605-620)
StoreGetPath ==
    /\ \E lv \in 1..(MaxLevel + 1) :
          lastPath' = [level |-> lv, path |-> getCompletedPath(gameState, lv),
                       given |-> WrittenPath(lv),
                       unlocked |-> isLevelUnlocked(gameState, lv),
                       completed |-> isLevelCompleted(gameState, lv),
                       done |-> DOMAIN written]
    /\ UNCHANGED <<gameState, storage, written, nextBtn>>
    /\ storeFrame

NextStore == StoreComplete \/ StoreReload \/ StoreGetPath

SpecStore == InitStore /\ [][NextStore]_vars

\* ------------------------------------------------------- game behaviours
\* maps/<n>.png of the levels the model plays: start and goal side by side,
\* and start above goal
ShortLevel == ImageOf(2, 1, [i \in 0..1 |-> IF i = 0 THEN Blue ELSE Red])
TallLevel == ImageOf(1, 2, [i \in 0..1 |-> IF i = 0 THEN Blue ELSE Red])
GameImages == {ShortLevel, TallLevel}

\* a level image without start and goal (the throw of line 205)
BrokenLevel == ImageOf(1, 1, [i \in 0..0 |-> White])

\* the image file behind maps/<lv>.png
FileOf(lv) == IF lv \in DOMAIN files.given THEN files.given[lv] ELSE files.rest

\* setupEventListeners has run (init, line 319)
ListenersInstalled == discovery # Null /\ ~discovery.running

\* new MazeGame(), lines 298-314, up to the first await of determineMaxLevel
ConstructGame ==
    /\ gameState' = NewGameState(storage)
    /\ maze' = Null
    /\ mazeLevel' = Null
    /\ player' = Null
    /\ cellSize' = Frac(25, 1)
    /\ parsedMazes' = EmptyObject
    /\ discovery' = [running |-> TRUE, i |-> 1, maxLevel |-> 0]
    /\ decodes' = <<1>>
    /\ pending' = {}
    /\ view' = Null
    /\ moveTimer' = Null
    /\ nextBtn' = ""

InitGame ==
    /\ level = 1
    /\ file = NoFile
    /\ result = Null
    /\ calls = <<>>
    /\ probe = Null
    /\ files \in {[given |-> g, rest |-> NoFile] : g \in [Levels -> GameImages]}
    /\ storage = Null
    /\ gameState = NewGameState(storage)
    /\ maze = Null
    /\ mazeLevel = Null
    /\ player = Null
    /\ cellSize = Frac(25, 1)
    /\ parsedMazes = EmptyObject
    /\ discovery = [running |-> TRUE, i |-> 1, maxLevel |-> 0]
    /\ decodes = <<1>>
    /\ pending = {}
    /\ view = Null
    /\ moves = 0
    /\ lastPath = Null
    /\ lastLoad = Null
    /\ moveTimer = Null
    /\ lastMove = Null
    /\ lastInput = Null
    /\ frame = Null
    /\ written = <<>>
    /\ nextBtn = ""

gameFrame ==
    UNCHANGED <<level, file, result, calls, probe, files, lastPath, lastInput,
                frame>>

\* the handlers that neither call movePlayer nor touch the interval
inputFrame == UNCHANGED <<moveTimer, lastMove>>

\* showScreen, lines 569-587
showScreen(gs, screenName) == [gs EXCEPT !.currentScreen = screenName]

\* determineMaxLevel going on with the next level after a failed decode
afterFailedProbeSkips(d) == [d EXCEPT !.i = @ + 1]

\* the catch block of determineMaxLevel, lines 339-342: break
afterFailedProbe(d) == [d EXCEPT !.running = FALSE]

\* determineMaxLevel, lines 327-351: the decode of level discovery.i settles;
\* the loop goes on to the next level or ends, and init (lines 318-321) goes on
Discover ==
    /\ discovery # Null
    /\ discovery.running
    /\ LET i == discovery.i
           r == parseMazeFromImage(getMazeConfig(i).filename, FileOf(i))
           d == IF r.ok THEN [discovery EXCEPT !.maxLevel = i, !.i = i + 1]
                        ELSE afterFailedProbe(discovery)
           ended == ~d.running \/ d.i > MAX_CHECK_LIMIT
       IN  /\ parsedMazes' =
                 IF r.ok
                   THEN (i :> [data |-> r.data, serial |-> Len(decodes)])
                            @@ parsedMazes
                   ELSE parsedMazes
           /\ discovery' = [d EXCEPT !.running = ~ended]
           /\ decodes' = IF ended THEN decodes ELSE Append(decodes, d.i)
           /\ gameState' =
                 IF ended
                   THEN showScreen([gameState EXCEPT !.maxLevel = d.maxLevel],
                                   "title")
                   ELSE gameState
    /\ UNCHANGED <<maze, mazeLevel, player, cellSize, view, storage, pending, moves,
                   lastLoad, written, nextBtn>>
    /\ gameFrame
    /\ inputFrame

\* showLevelSelect, lines 589-598; every level the grid previews is in the
\* cache (line 612), so that addLevelPreview starts no decode
showLevelSelect(gs) ==
    IF gs.maxLevel = 0 THEN gs ELSE showScreen(gs, "level-select")

\* click on start-button (title screen), lines 409-411
ClickStart ==
    /\ ListenersInstalled
    /\ gameState.currentScreen = "title"
    /\ gameState' = showLevelSelect(gameState)
    /\ UNCHANGED <<maze, mazeLevel, player, cellSize, view, storage, parsedMazes, pending,
                   decodes, discovery, moves, lastLoad, written, nextBtn>>
    /\ gameFrame
    /\ inputFrame

\* click on back-to-title (level-select screen), lines 413-415
ClickBackToTitle ==
    /\ ListenersInstalled
    /\ gameState.currentScreen = "level-select"
    /\ gameState' = showScreen(gameState, "title")
    /\ UNCHANGED <<maze, mazeLevel, player, cellSize, view, storage, parsedMazes, pending,
                   decodes, discovery, moves, lastLoad, written, nextBtn>>
    /\ gameFrame
    /\ inputFrame

\* click on back-to-select (game screen) or back-to-select-clear (clear
\* screen), lines 417-423
ClickBackToSelect ==
    /\ ListenersInstalled
    /\ gameState.currentScreen \in {"game", "clear"}
    /\ gameState' = showLevelSelect(gameState)
    /\ UNCHANGED <<maze, mazeLevel, player, cellSize, view, storage, parsedMazes, pending,
                   decodes, discovery, moves, lastLoad, written, nextBtn>>
    /\ gameFrame
    /\ inputFrame

\* startLevel assigning currentLevel before it tests the level
startLevelAssignsFirst(lv) ==
    IF lv > gameState.maxLevel
      THEN /\ gameState' = [gameState EXCEPT !.currentLevel = lv]
           /\ UNCHANGED <<maze, mazeLevel, player, cellSize, view>>
      ELSE LET mazeData == parsedMazes[lv].data
               m == NewMaze(mazeData)
               p == NewPlayer(m.start.x, m.start.y)
               cs == levelCellSize(m)
           IN  /\ maze' = m
               /\ mazeLevel' = lv
               /\ player' = p
               /\ cellSize' = cs
               /\ gameState' = showScreen([gameState EXCEPT !.currentLevel = lv],
                                          "game")
               /\ view' = renderMaze(m, p, cs)

\* startLevel(lv), lines 686-744, for a level whose descriptor is cached
startLevel(lv) ==
    IF lv > gameState.maxLevel
      THEN UNCHANGED <<gameState, maze, mazeLevel, player, cellSize, view>>
      ELSE LET mazeData == parsedMazes[lv].data
               m == NewMaze(mazeData)
               p == NewPlayer(m.start.x, m.start.y)
               cs == levelCellSize(m)
           IN  /\ maze' = m
               /\ mazeLevel' = lv
               /\ player' = p
               /\ cellSize' = cs
               /\ gameState' = showScreen([gameState EXCEPT !.currentLevel = lv],
                                          "game")
               /\ view' = renderMaze(m, p, cs)

\* click on an unlocked button of the level grid, lines 600-624
ClickLevel ==
    /\ ListenersInstalled
    /\ gameState.currentScreen = "level-select"
    /\ \E lv \in 1..gameState.maxLevel :
          /\ isLevelUnlocked(gameState, lv)
          /\ startLevel(lv)
    /\ UNCHANGED <<storage, parsedMazes, pending, decodes, discovery, moves,
                   lastLoad, written, nextBtn>>
    /\ gameFrame
    /\ inputFrame

\* click on next-level-btn, lines 425-427; completeLevel shows the button only
\* when there is a next level (lines 807-822)
ClickNextLevel ==
    /\ ListenersInstalled
    /\ gameState.currentScreen = "clear"
    /\ nextBtn = "inline-block"
    /\ startLevel(gameState.currentLevel + 1)
    /\ UNCHANGED <<storage, parsedMazes, pending, decodes, discovery, moves,
                   lastLoad, written, nextBtn>>
    /\ gameFrame
    /\ inputFrame

\* completeLevel, lines 807-808: is there a level after the current one
hasNextLevel(gs) == gs.currentLevel + 1 <= gs.maxLevel

\* completeLevel, lines 816-824: the style.display it gives next-level-btn
nextBtnDisplay(gs) == IF hasNextLevel(gs) THEN "inline-block" ELSE "none"

\* the playSound calls of one movePlayer on the game screen, in order: 'move'
\* at line 781, 'clear' at line 803 (completeLevel), 'hit' at lines 794-798
moveSoundsNoHit(moved, atGoal, wallAhead) ==
    IF moved
      THEN IF atGoal THEN <<"move", "clear">> ELSE <<"move">>
      ELSE <<>>

moveSounds(moved, atGoal, wallAhead) ==
    IF moved
      THEN IF atGoal THEN <<"move", "clear">> ELSE <<"move">>
      ELSE IF wallAhead THEN <<"hit">> ELSE <<>>

\* the interval movePlayer(dx, dy) leaves behind: cleared when the move
\* reaches the goal, lines 784-789
movePlayerTimer(dx, dy) ==
    IF gameState.currentScreen # "game"
      THEN moveTimer
      ELSE LET r == move(player, dx, dy, maze)
           IN  IF r.ret /\ isAtGoal(r.player, maze) THEN Null ELSE moveTimer

\* movePlayer, lines 774-800, with completeLevel, lines 802-827
movePlayer(dx, dy) ==
    IF gameState.currentScreen # "game"
      THEN /\ lastMove' = [screen |-> gameState.currentScreen, dx |-> dx,
                           dy |-> dy, before |-> player, after |-> player,
                           sounds |-> <<>>]
           /\ UNCHANGED <<gameState, player, view, storage, written, nextBtn>>
      ELSE LET r == move(player, dx, dy, maze)
               atGoal == isAtGoal(r.player, maze)
               wallAhead == isWall(maze, player.x + dx, player.y + dy)
           IN  /\ player' = r.player
               /\ lastMove' = [screen |-> "game", dx |-> dx, dy |-> dy,
                               before |-> player, after |-> r.player,
                               sounds |-> moveSounds(r.ret, atGoal, wallAhead)]
               /\ view' = IF r.ret THEN renderMaze(maze, r.player, cellSize)
                                   ELSE view
               /\ IF r.ret /\ atGoal
                    THEN LET c == completeLevel(gameState, gameState.currentLevel,
                                                r.player.visitedCells)
                         IN  /\ gameState' = showScreen(c.gameState, "clear")
                             /\ storage' = c.storage
                             /\ nextBtn' = nextBtnDisplay(gameState)
                             /\ written' =
                                   (LevelKeys[gameState.currentLevel]
                                       :> r.player.visitedCells) @@ written
                    ELSE UNCHANGED <<gameState, storage, written, nextBtn>>

\* keydown of a movement key (lines 430-432) or a press of a control button
\* (startMove, lines 451-456) on the game screen
PressMove ==
    /\ ListenersInstalled
    /\ gameState.currentScreen = "game"
    /\ moves < MaxGameMoves
    /\ moves' = moves + 1
    /\ \E d \in Directions : /\ movePlayer(d[1], d[2])
                             /\ moveTimer' = movePlayerTimer(d[1], d[2])
    /\ UNCHANGED <<maze, mazeLevel, cellSize, parsedMazes, pending, decodes, discovery,
                   lastLoad>>
    /\ gameFrame

\* the page is loaded again: the storage item stays, the script starts over
ReloadPage ==
    /\ ConstructGame
    /\ UNCHANGED <<storage, moves, lastLoad, written>>
    /\ gameFrame
    /\ UNCHANGED lastMove

NextGame ==
    \/ Discover
    \/ ClickStart
    \/ ClickBackToTitle
    \/ ClickBackToSelect
    \/ ClickLevel
    \/ ClickNextLevel
    \/ PressMove
    \/ ReloadPage

SpecGame == InitGame /\ [][NextGame]_vars

\* startLevel(lv) called for a level beyond maxLevel, lines 686-691: the
\* alert is shown and the function returns
StartLevelBeyond ==
    /\ ListenersInstalled
    /\ \E lv \in (gameState.maxLevel + 1)..(gameState.maxLevel + MaxBeyond) :
          startLevel(lv)
    /\ lastInput' = [source |-> "call", name |-> "startLevel", issued |-> Null]
    /\ UNCHANGED <<storage, parsedMazes, pending, decodes, discovery, moves,
                   lastLoad, written, nextBtn>>
    /\ UNCHANGED <<level, file, result, calls, probe, files, lastPath, frame>>
    /\ inputFrame

NextGuard ==
    \/ Discover
    \/ ClickStart
    \/ ClickBackToTitle
    \/ ClickBackToSelect
    \/ ClickLevel
    \/ ClickNextLevel
    \/ PressMove
    \/ ReloadPage
    \/ StartLevelBeyond

SpecGuard == InitGame /\ [][NextGuard]_vars

\* -------------------------------------------------- discovery behaviours
\* what may lie behind maps/<n>.png
DiscoveryImages == {ShortLevel, NoFile, BrokenLevel}

\* new MazeGame() on a server whose first MaxLevel level files are any of
\* DiscoveryImages and whose later level files all exist or are all missing
InitDiscovery ==
    /\ level = 1
    /\ file = NoFile
    /\ result = Null
    /\ calls = <<>>
    /\ probe = Null
    /\ files \in {[given |-> g, rest |-> f]
                    : g \in [Levels -> DiscoveryImages], f \in {NoFile, TallLevel}}
    /\ storage = Null
    /\ gameState = NewGameState(storage)
    /\ maze = Null
    /\ mazeLevel = Null
    /\ player = Null
    /\ cellSize = Frac(25, 1)
    /\ parsedMazes = EmptyObject
    /\ discovery = [running |-> TRUE, i |-> 1, maxLevel |-> 0]
    /\ decodes = <<1>>
    /\ pending = {}
    /\ view = Null
    /\ moves = 0
    /\ lastPath = Null
    /\ lastLoad = Null
    /\ moveTimer = Null
    /\ lastMove = Null
    /\ lastInput = Null
    /\ frame = Null
    /\ written = <<>>
    /\ nextBtn = ""

NextDiscovery == Discover

\* a started image load ends with onload or onerror, so that every await of
\* determineMaxLevel is resumed
SpecDiscovery ==
    InitDiscovery /\ [][NextDiscovery]_vars /\ WF_vars(Discover)

\* ---------------------------------- behaviours of src/script.js (lazy decode)
\* src/script.js line 69 and MAZE_CONFIG, lines 121-133: levels 1..11
SCRIPT_MAX_LEVEL == 11

\* MAZE_CONFIG[lv], src/script.js lines 121-133 (Null: undefined)
MAZE_CONFIG(lv) ==
    IF lv \in 1..SCRIPT_MAX_LEVEL THEN getMazeConfig(lv) ELSE Null

\* what may lie behind maps/<n>.png: a level, nothing, or a broken level
LazyImages == {ShortLevel, NoFile, BrokenLevel}

\* the members of a set of numbers in ascending order
RECURSIVE Ascending(_)
Ascending(S) ==
    IF S = {} THEN <<>>
    ELSE LET lo == CHOOSE a \in S : \A b \in S : a <= b
         IN  <<lo>> \o Ascending(S \ {lo})

\* src/script.js renderMaze, lines 657-700: every cell of the maze, no offset
renderWholeMaze(m, p, cs) ==
    [startX |-> 0, startY |-> 0, endX |-> m.width - 1, endY |-> m.height - 1,
     offsetX |-> Frac(0, 1), offsetY |-> Frac(0, 1)]

\* src/script.js line 558
scriptCellSize(m) == FracMin(Frac(400, m.width), Frac(400, m.height))

\* the path of an earlier visit that completed level 1 of ShortLevel
EarlierPath == {CellKey(0, 0), CellKey(1, 0)}

\* the storage item a page load may find: none, or the progress of an
\* earlier visit that completed level 1
SavedProgress ==
    {Null, completeLevel(NewGameState(Null), 1, EarlierPath).storage}

\* src/script.js constructor and init, lines 291-314, on a page load
InitLazy ==
    /\ level = 1
    /\ file = NoFile
    /\ result = Null
    /\ calls = <<>>
    /\ probe = Null
    /\ files \in {[given |-> g, rest |-> NoFile] : g \in [Levels -> LazyImages]}
    /\ storage \in SavedProgress
    /\ gameState = [NewGameState(storage) EXCEPT !.maxLevel = SCRIPT_MAX_LEVEL]
    /\ maze = Null
    /\ mazeLevel = Null
    /\ player = Null
    /\ cellSize = Frac(25, 1)
    /\ parsedMazes = EmptyObject
    /\ discovery = Null
    /\ decodes = <<>>
    /\ pending = {}
    /\ view = Null
    /\ moves = 0
    /\ lastPath = Null
    /\ lastLoad = Null
    /\ moveTimer = Null
    /\ lastMove = Null
    /\ lastInput = Null
    /\ frame = Null
    /\ written = IF storage = Null THEN <<>> ELSE (LevelKeys[1] :> EarlierPath)
    /\ nextBtn = ""

\* the levels whose preview starts a decode: updateLevelGrid and
\* addLevelPreview, src/script.js lines 461-499
PreviewLevels(gs) ==
    {lv \in 1..gs.maxLevel :
        isLevelCompleted(gs, lv) /\ lv \notin DOMAIN parsedMazes}

\* showLevelSelect, src/script.js lines 456-459: the screen, and one pending
\* decode for every completed level that has no cached descriptor
lazyShowLevelSelect(gs) ==
    LET lvs == Ascending(PreviewLevels(gs))
    IN  /\ Len(decodes) + Len(lvs) <= MaxDecodes
        /\ gameState' = showScreen(gs, "level-select")
        /\ decodes' = decodes \o lvs
        /\ pending' = pending \cup
              {[kind |-> "preview", level |-> lvs[k], serial |-> Len(decodes) + k]
                  : k \in 1..Len(lvs)}

\* click on start-button, back-to-select or back-to-select-clear,
\* src/script.js lines 370-384
LazyClickSelect ==
    /\ gameState.currentScreen \in {"title", "game", "clear"}
    /\ lazyShowLevelSelect(gameState)
    /\ UNCHANGED <<maze, mazeLevel, player, cellSize, view, storage, parsedMazes, discovery,
                   moves, lastLoad, written, nextBtn>>
    /\ gameFrame
    /\ inputFrame

\* click on back-to-title, src/script.js lines 374-376
LazyClickBackToTitle ==
    /\ gameState.currentScreen = "level-select"
    /\ gameState' = showScreen(gameState, "title")
    /\ UNCHANGED <<maze, mazeLevel, player, cellSize, view, storage, parsedMazes, pending,
                   decodes, discovery, moves, lastLoad, written, nextBtn>>
    /\ gameFrame
    /\ inputFrame

\* the synchronous rest of startLevel once mazeData is there, src/script.js
\* lines 549-568
lazyEnterLevel(lv, entry) ==
    LET m == NewMaze(entry.data)
        p == NewPlayer(m.start.x, m.start.y)
        cs == scriptCellSize(m)
    IN  /\ parsedMazes' = (lv :> entry) @@ parsedMazes
        /\ maze' = m
        /\ mazeLevel' = lv
        /\ player' = p
        /\ cellSize' = cs
        /\ view' = renderWholeMaze(m, p, cs)

\* startLevel showing the game screen before the decode is awaited
screenWhileLoadingGame(gs) == "game"

\* the screen while startLevel awaits the decode
screenWhileLoading(gs) == gs.currentScreen

\* startLevel(lv), src/script.js lines 538-550, up to its await
lazyStartLevel(lv) ==
    IF MAZE_CONFIG(lv) = Null
      THEN UNCHANGED <<gameState, maze, mazeLevel, player, cellSize, view, parsedMazes,
                       pending, decodes>>
    ELSE IF lv \in DOMAIN parsedMazes
      THEN /\ lazyEnterLevel(lv, parsedMazes[lv])
           /\ gameState' = showScreen([gameState EXCEPT !.currentLevel = lv],
                                      "game")
           /\ UNCHANGED <<pending, decodes>>
      ELSE /\ Len(decodes) < MaxDecodes
           /\ gameState' = [gameState EXCEPT
                               !.currentLevel = lv,
                               !.currentScreen = screenWhileLoading(gameState)]
           /\ decodes' = Append(decodes, lv)
           /\ pending' = pending \cup
                 {[kind |-> "start", level |-> lv, serial |-> Len(decodes) + 1]}
           /\ UNCHANGED <<maze, mazeLevel, player, cellSize, view, parsedMazes>>

\* click on an unlocked button of the level grid, src/script.js lines 476-478
LazyClickLevel ==
    /\ gameState.currentScreen = "level-select"
    /\ \E lv \in 1..gameState.maxLevel :
          /\ isLevelUnlocked(gameState, lv)
          /\ lazyStartLevel(lv)
    /\ UNCHANGED <<storage, discovery, moves, lastLoad, written, nextBtn>>
    /\ gameFrame
    /\ inputFrame

\* click on next-level-btn, src/script.js lines 386-388; completeLevel shows
\* the button only when there is a next level (lines 641-647)
LazyClickNextLevel ==
    /\ gameState.currentScreen = "clear"
    /\ nextBtn = "inline-block"
    /\ lazyStartLevel(gameState.currentLevel + 1)
    /\ UNCHANGED <<storage, discovery, moves, lastLoad, written, nextBtn>>
    /\ gameFrame
    /\ inputFrame

\* movePlayer, src/script.js lines 606-633, with completeLevel, lines 635-650
scriptMovePlayer(dx, dy) ==
    IF gameState.currentScreen # "game"
      THEN /\ lastMove' = [screen |-> gameState.currentScreen, dx |-> dx,
                           dy |-> dy, before |-> player, after |-> player,
                           sounds |-> <<>>]
           /\ UNCHANGED <<gameState, player, view, storage, written, nextBtn>>
      ELSE LET r == move(player, dx, dy, maze)
               atGoal == isAtGoal(r.player, maze)
               wallAhead == isWall(maze, player.x + dx, player.y + dy)
           IN  /\ player' = r.player
               /\ lastMove' = [screen |-> "game", dx |-> dx, dy |-> dy,
                               before |-> player, after |-> r.player,
                               sounds |-> moveSounds(r.ret, atGoal, wallAhead)]
               /\ view' = IF r.ret THEN renderWholeMaze(maze, r.player, cellSize)
                                   ELSE view
               /\ IF r.ret /\ atGoal
                    THEN LET c == completeLevel(gameState, gameState.currentLevel,
                                                r.player.visitedCells)
                         IN  /\ gameState' = showScreen(c.gameState, "clear")
                             /\ storage' = c.storage
                             /\ nextBtn' = nextBtnDisplay(gameState)
                             /\ written' =
                                   (LevelKeys[gameState.currentLevel]
                                       :> r.player.visitedCells) @@ written
                    ELSE UNCHANGED <<gameState, storage, written, nextBtn>>

\* keydown of a movement key or press of a control button on the game
\* screen, src/script.js lines 393-397, 412-420
LazyPressMove ==
    /\ gameState.currentScreen = "game"
    /\ moves < MaxLazyMoves
    /\ moves' = moves + 1
    /\ \E d \in Directions : /\ scriptMovePlayer(d[1], d[2])
                             /\ moveTimer' = movePlayerTimer(d[1], d[2])
    /\ UNCHANGED <<maze, mazeLevel, cellSize, parsedMazes, pending, decodes, discovery,
                   lastLoad>>
    /\ gameFrame

\* startLevel without try / catch: the rejection leaves the function
startLevelUncaught(lv, error) ==
    [level |-> lv, alert |-> "", escaped |-> TRUE]

\* the catch block of startLevel, src/script.js lines 571-575, before its
\* call of showLevelSelect: the error is shown and goes no further
startLevelCatch(lv, error) ==
    [level |-> lv, alert |-> error, escaped |-> FALSE]

\* the decode awaited by a startLevel settles: src/script.js lines 548-575
SettleStart ==
    \E q \in pending :
      /\ q.kind = "start"
      /\ LET r == parseMazeFromImage(MAZE_CONFIG(q.level).filename,
                                      FileOf(q.level))
         IN  IF r.ok
               THEN /\ lazyEnterLevel(q.level,
                                      [data |-> r.data, serial |-> q.serial])
                    /\ gameState' = showScreen(gameState, "game")
                    /\ pending' = pending \ {q}
                    /\ UNCHANGED <<decodes, lastLoad>>
               ELSE LET c == startLevelCatch(q.level, r.error)
                        lvs == Ascending(PreviewLevels(gameState))
                    IN  /\ lastLoad' = [level |-> c.level, alert |-> c.alert,
                                        escaped |-> c.escaped,
                                        serial |-> q.serial]
                        /\ IF c.escaped
                             THEN /\ pending' = pending \ {q}
                                  /\ UNCHANGED <<gameState, decodes>>
                             ELSE /\ Len(decodes) + Len(lvs) <= MaxDecodes
                                  /\ gameState' =
                                        showScreen(gameState, "level-select")
                                  /\ decodes' = decodes \o lvs
                                  /\ pending' = (pending \ {q}) \cup
                                        {[kind |-> "preview", level |-> lvs[k],
                                          serial |-> Len(decodes) + k]
                                            : k \in 1..Len(lvs)}
                        /\ UNCHANGED <<maze, mazeLevel, player, cellSize, view, parsedMazes>>
      /\ UNCHANGED <<storage, discovery, moves, written, nextBtn>>
      /\ gameFrame
      /\ inputFrame

\* the decode awaited by an addLevelPreview settles: src/script.js lines
\* 496-534
SettlePreview ==
    \E q \in pending :
      /\ q.kind = "preview"
      /\ LET r == parseMazeFromImage(MAZE_CONFIG(q.level).filename,
                                      FileOf(q.level))
         IN  IF r.ok
               THEN parsedMazes' =
                      (q.level :> [data |-> r.data, serial |-> q.serial])
                          @@ parsedMazes
               ELSE UNCHANGED parsedMazes
      /\ pending' = pending \ {q}
      /\ UNCHANGED <<gameState, maze, mazeLevel, player, cellSize, view, storage, decodes,
                     discovery, moves, lastLoad, written, nextBtn>>
      /\ gameFrame
      /\ inputFrame

NextLazy ==
    \/ LazyClickSelect
    \/ LazyClickBackToTitle
    \/ LazyClickLevel
    \/ LazyClickNextLevel
    \/ LazyPressMove
    \/ SettleStart
    \/ SettlePreview

SpecLazy == InitLazy /\ [][NextLazy]_vars

\* src/script.js on a browser without saved progress, right after level 1 (the
\* 2 x 1 level) was opened from the level grid and completed by one move to
\* the right: the clear screen offers the next level
InitLazyCleared ==
    LET mazeData == parseMazeFromImage(MAZE_CONFIG(1).filename, ShortLevel).data
        m == NewMaze(mazeData)
        before == NewPlayer(m.start.x, m.start.y)
        p == move(before, 1, 0, m).player
        fresh == [NewGameState(Null) EXCEPT !.maxLevel = SCRIPT_MAX_LEVEL]
        c == completeLevel(fresh, 1, p.visitedCells)
    IN  /\ level = 1
        /\ file = NoFile
        /\ result = Null
        /\ calls = <<>>
        /\ probe = Null
        /\ files \in {[given |-> g, rest |-> NoFile] :
                        g \in {h \in [Levels -> LazyImages] : h[1] = ShortLevel}}
        /\ storage = c.storage
        /\ gameState = showScreen(c.gameState, "clear")
        /\ maze = m
        /\ mazeLevel = 1
        /\ player = p
        /\ cellSize = scriptCellSize(m)
        /\ parsedMazes = (1 :> [data |-> mazeData, serial |-> 1])
        /\ discovery = Null
        /\ decodes = <<1>>
        /\ pending = {}
        /\ view = renderWholeMaze(m, p, scriptCellSize(m))
        /\ moves = 0
        /\ lastPath = Null
        /\ lastLoad = Null
        /\ moveTimer = Null
        /\ lastMove = [screen |-> "game", dx |-> 1, dy |-> 0, before |-> before,
                       after |-> p, sounds |-> moveSounds(TRUE, TRUE, FALSE)]
        /\ lastInput = Null
        /\ frame = Null
        /\ written = (LevelKeys[1] :> p.visitedCells)
        /\ nextBtn = nextBtnDisplay(gameState)

\* the handlers that follow; no preview decode is started here, since level 1
\* is cached and a preview of another completed level would be a decode
\* beyond MaxDecodes
NextLazyCleared ==
    \/ LazyClickSelect
    \/ LazyClickBackToTitle
    \/ LazyClickLevel
    \/ LazyClickNextLevel
    \/ LazyPressMove
    \/ SettleStart

SpecLazyCleared == InitLazyCleared /\ [][NextLazyCleared]_vars

\* ----------------------------------------------------- camera behaviours
\* maze widths and heights around the limit MAX_VISIBLE_CELLS
CameraDims ==
    {1, 2} \cup ((MAX_VISIBLE_CELLS - 1)..(MAX_VISIBLE_CELLS + MaxCameraExtra))

\* descriptors of wall-free level images of these sizes: the start anywhere,
\* the goal in the last cell, or in the first when the start is the last
CameraMazes ==
    {[width |-> w, height |-> h, start |-> [x |-> sx, y |-> sy],
      goal |-> IF sx = w - 1 /\ sy = h - 1 THEN [x |-> 0, y |-> 0]
                                           ELSE [x |-> w - 1, y |-> h - 1],
      walls |-> <<>>]
        : <<w, h, sx, sy>> \in
            {q \in CameraDims \X CameraDims \X (0..(MAX_VISIBLE_CELLS + MaxCameraExtra - 1))
                             \X (0..(MAX_VISIBLE_CELLS + MaxCameraExtra - 1)) :
                q[3] < q[1] /\ q[4] < q[2] /\ q[1] * q[2] >= 2}}

\* level 1 has just been started (startLevel, lines 686-738) on a one-level game
InitCamera ==
    /\ level = 1
    /\ file = NoFile
    /\ result = Null
    /\ calls = <<>>
    /\ probe = Null
    /\ files = Null
    /\ storage = Null
    /\ \E mazeData \in CameraMazes :
          LET m == NewMaze(mazeData)
              p == NewPlayer(m.start.x, m.start.y)
          IN  /\ parsedMazes = (1 :> [data |-> mazeData, serial |-> 1])
              /\ maze = m
              /\ mazeLevel = 1
              /\ player = p
              /\ cellSize = levelCellSize(m)
              /\ view = renderMaze(m, p, levelCellSize(m))
    /\ gameState = [NewGameState(storage) EXCEPT !.maxLevel = 1,
                                                !.currentScreen = "game"]
    /\ discovery = [running |-> FALSE, i |-> 2, maxLevel |-> 1]
    /\ decodes = <<1, 2>>
    /\ pending = {}
    /\ moves = 0
    /\ lastPath = Null
    /\ lastLoad = Null
    /\ moveTimer = Null
    /\ lastMove = Null
    /\ lastInput = Null
    /\ frame = Null
    /\ written = <<>>
    /\ nextBtn = ""

\* a movement key on the game screen: movePlayer renders the new frame
CameraMove ==
    /\ gameState.currentScreen = "game"
    /\ moves < MaxCameraMoves
    /\ moves' = moves + 1
    /\ \E d \in Directions : /\ movePlayer(d[1], d[2])
                             /\ moveTimer' = movePlayerTimer(d[1], d[2])
    /\ UNCHANGED <<maze, mazeLevel, cellSize, parsedMazes, pending, decodes, discovery,
                   lastLoad>>
    /\ gameFrame

NextCamera == CameraMove

SpecCamera == InitCamera /\ [][NextCamera]_vars

\* --------------------------------------------------- rendering behaviours
\* the fillRect calls of renderMaze's cell loop, lines 886-921: the cells of
\* the window that are painted and the fill colour of each (the grid line, the
\* goal marker and the player's disc are painted over the fill)
renderMazeCells(m, p, v) ==
    LET viewRange == 1
        isInView(c) == /\ Abs(c[1] - p.x) <= viewRange
                       /\ Abs(c[2] - p.y) <= viewRange
        painted == {c \in (v.startX..v.endX) \X (v.startY..v.endY) :
                      /\ ~(c[1] < 0 \/ c[1] >= m.width \/ c[2] < 0 \/ c[2] >= m.height)
                      /\ (isInView(c) \/ hasVisited(p, c[1], c[2]))}
    IN  [c \in painted |->
            IF isWall(m, c[1], c[2]) THEN "#333"
            ELSE IF isInView(c) THEN "#fff" ELSE "#f0f0f0"]

\* the fillRect calls of renderMinimap's cell loop, lines 957-986, on top of
\* the background: the cells painted and the last fill colour of each (the
\* player's disc is painted over it)
renderMinimapCells(m, p) ==
    LET isStart(c) == c[1] = m.start.x /\ c[2] = m.start.y
        isGoal(c) == c[1] = m.goal.x /\ c[2] = m.goal.y
        painted == {c \in (0..(m.width - 1)) \X (0..(m.height - 1)) :
                      \/ isStart(c)
                      \/ isWall(m, c[1], c[2])
                      \/ hasVisited(p, c[1], c[2])}
    IN  [c \in painted |->
            IF isStart(c) THEN "#0000FF"
            ELSE IF isGoal(c) /\ hasVisited(p, c[1], c[2]) THEN "#FF0000"
            ELSE IF isWall(m, c[1], c[2]) THEN "#333" ELSE "#ADD8E6"]

\* render, lines 828-831
render(m, p, cs) ==
    LET v == renderMaze(m, p, cs)
    IN  [maze |-> m, player |-> p, window |-> v,
         main |-> renderMazeCells(m, p, v),
         minimap |-> renderMinimapCells(m, p)]

\* renderMinimap, src/script.js lines 711-750: the cell loop paints visited
\* cells only; the player's square is painted afterwards
scriptRenderMinimapCells(m, p) ==
    LET isStart(c) == c[1] = m.start.x /\ c[2] = m.start.y
        isGoal(c) == c[1] = m.goal.x /\ c[2] = m.goal.y
        painted == {c \in (0..(m.width - 1)) \X (0..(m.height - 1)) :
                      hasVisited(p, c[1], c[2])}
    IN  [c \in painted |->
            IF isGoal(c) THEN "#F44336"
            ELSE IF isStart(c) THEN "#0000FF"
            ELSE IF isWall(m, c[1], c[2]) THEN "#333" ELSE "#fff"]

\* render, src/script.js lines 652-655
scriptRender(m, p, cs) ==
    LET v == renderWholeMaze(m, p, cs)
    IN  [maze |-> m, player |-> p, window |-> v,
         main |-> renderMazeCells(m, p, v),
         minimap |-> scriptRenderMinimapCells(m, p)]

\* descriptors of the level images a session is played on
DecodedMazes ==
    {parseMazeFromImage(getMazeConfig(1).filename, img).data :
        img \in {i \in ImagesOver(PlayPalette, MaxPlayPixels) :
                   parseMazeFromImage(getMazeConfig(1).filename, i).ok}}

\* the levels rendered: the small ones, with walls, and wall-free ones around
\* the limit MAX_VISIBLE_CELLS that start in a corner
RenderMazes ==
    DecodedMazes \cup
    {d \in CameraMazes : /\ d.start.x \in {0, d.width - 1}
                         /\ d.start.y \in {0, d.height - 1}}

\* level 1 has just been started and rendered (startLevel, lines 686-738)
InitRender ==
    /\ level = 1
    /\ file = NoFile
    /\ result = Null
    /\ calls = <<>>
    /\ probe = Null
    /\ files = Null
    /\ storage = Null
    /\ \E mazeData \in RenderMazes :
          LET m == NewMaze(mazeData)
              p == NewPlayer(m.start.x, m.start.y)
          IN  /\ parsedMazes = (1 :> [data |-> mazeData, serial |-> 1])
              /\ maze = m
              /\ mazeLevel = 1
              /\ player = p
              /\ cellSize = levelCellSize(m)
              /\ view = renderMaze(m, p, levelCellSize(m))
              /\ frame = render(m, p, levelCellSize(m))
    /\ gameState = [NewGameState(storage) EXCEPT !.maxLevel = 1,
                                                !.currentScreen = "game"]
    /\ discovery = [running |-> FALSE, i |-> 2, maxLevel |-> 1]
    /\ decodes = <<1, 2>>
    /\ pending = {}
    /\ moves = 0
    /\ lastPath = Null
    /\ lastLoad = Null
    /\ moveTimer = Null
    /\ lastMove = Null
    /\ lastInput = Null
    /\ written = <<>>
    /\ nextBtn = ""

renderUnchanged ==
    UNCHANGED <<level, file, result, calls, probe, files, lastPath, lastInput,
                maze, mazeLevel, cellSize, parsedMazes, pending, decodes, discovery,
                lastLoad>>

\* a movement key on the game screen: an accepted move renders (line 782)
RenderMove ==
    /\ gameState.currentScreen = "game"
    /\ moves < MaxRenderMoves
    /\ moves' = moves + 1
    /\ \E d \in Directions :
          /\ movePlayer(d[1], d[2])
          /\ moveTimer' = movePlayerTimer(d[1], d[2])
          /\ frame' = IF move(player, d[1], d[2], maze).ret
                        THEN render(maze, move(player, d[1], d[2], maze).player,
                                    cellSize)
                        ELSE frame
    /\ renderUnchanged

NextRender == RenderMove

SpecRender == InitRender /\ [][NextRender]_vars

\* level 1 has just been started and rendered by src/script.js (lines
\* 538-570)
InitScriptRender ==
    /\ level = 1
    /\ file = NoFile
    /\ result = Null
    /\ calls = <<>>
    /\ probe = Null
    /\ files = Null
    /\ storage = Null
    /\ \E mazeData \in DecodedMazes :
          LET m == NewMaze(mazeData)
              p == NewPlayer(m.start.x, m.start.y)
          IN  /\ parsedMazes = (1 :> [data |-> mazeData, serial |-> 1])
              /\ maze = m
              /\ mazeLevel = 1
              /\ player = p
              /\ cellSize = scriptCellSize(m)
              /\ view = renderWholeMaze(m, p, scriptCellSize(m))
              /\ frame = scriptRender(m, p, scriptCellSize(m))
    /\ gameState = [NewGameState(storage) EXCEPT !.maxLevel = SCRIPT_MAX_LEVEL,
                                                !.currentScreen = "game"]
    /\ discovery = Null
    /\ decodes = <<1>>
    /\ pending = {}
    /\ moves = 0
    /\ lastPath = Null
    /\ lastLoad = Null
    /\ moveTimer = Null
    /\ lastMove = Null
    /\ lastInput = Null
    /\ written = <<>>
    /\ nextBtn = ""

\* a movement key on the game screen of src/script.js (render at line 614)
ScriptRenderMove ==
    /\ gameState.currentScreen = "game"
    /\ moves < MaxRenderMoves
    /\ moves' = moves + 1
    /\ \E d \in Directions :
          /\ scriptMovePlayer(d[1], d[2])
          /\ moveTimer' = movePlayerTimer(d[1], d[2])
          /\ frame' = IF move(player, d[1], d[2], maze).ret
                        THEN scriptRender(maze,
                                          move(player, d[1], d[2], maze).player,
                                          cellSize)
                        ELSE frame
    /\ renderUnchanged

NextScriptRender == ScriptRenderMove

SpecScriptRender == InitScriptRender /\ [][NextScriptRender]_vars

\* ------------------------------------------------------ input behaviours
\* a level with a wall next to the start:  S #
\*                                         . G
CornerLevel == ImageOf(2, 2, (0 :> Blue) @@ (1 :> Black) @@ (2 :> White) @@ (3 :> Red))

InputImages == {ShortLevel, CornerLevel}

\* String.prototype.toLowerCase on the key names the keyboard delivers
toLowerCase(key) ==
    CASE key = "W" -> "w"
      [] key = "A" -> "a"
      [] key = "S" -> "s"
      [] key = "D" -> "d"
      [] key = "X" -> "x"
      [] key = "ArrowUp" -> "arrowup"
      [] key = "ArrowDown" -> "arrowdown"
      [] key = "ArrowLeft" -> "arrowleft"
      [] key = "ArrowRight" -> "arrowright"
      [] key = "Enter" -> "enter"
      [] OTHER -> key

\* the switch of handleGameKeyPress without its break statements
handleGameKeyPressFallThrough(key) ==
    LET k == toLowerCase(key)
    IN  IF k \in {"w", "arrowup", "s", "arrowdown", "a", "arrowleft",
                  "d", "arrowright"}
          THEN <<1, IF k \in {"w", "arrowup", "s", "arrowdown"} THEN 1 ELSE 0>>
          ELSE Null

\* handleGameKeyPress, lines 747-772: the (dx, dy) handed to movePlayer, or
\* Null when the default branch returns
handleGameKeyPress(key) ==
    LET k == toLowerCase(key)
    IN  CASE k \in {"w", "arrowup"} -> <<0, -1>>
          [] k \in {"s", "arrowdown"} -> <<0, 1>>
          [] k \in {"a", "arrowleft"} -> <<-1, 0>>
          [] k \in {"d", "arrowright"} -> <<1, 0>>
          [] OTHER -> Null

\* controlButtons, lines 439-444
controlButtons ==
    [id \in {"up-btn", "down-btn", "left-btn", "right-btn"} |->
        CASE id = "up-btn" -> [dx |-> 0, dy |-> -1]
          [] id = "down-btn" -> [dx |-> 0, dy |-> 1]
          [] id = "left-btn" -> [dx |-> -1, dy |-> 0]
          [] id = "right-btn" -> [dx |-> 1, dy |-> 0]]

\* the keys pressed: mapped ones in both cases, and some that are not mapped
Keys == {"w", "W", "a", "S", "d", "ArrowUp", "ArrowDown", "ArrowLeft",
         "ArrowRight", "x", "Enter", " "}

\* level 1 has just been started (startLevel, lines 686-738) on a one-level game
InitInput ==
    /\ level = 1
    /\ file = NoFile
    /\ result = Null
    /\ calls = <<>>
    /\ probe = Null
    /\ storage = Null
    /\ \E img \in InputImages :
          LET mazeData == parseMazeFromImage(getMazeConfig(1).filename, img).data
              m == NewMaze(mazeData)
              p == NewPlayer(m.start.x, m.start.y)
          IN  /\ files = [given |-> (1 :> img), rest |-> NoFile]
              /\ parsedMazes = (1 :> [data |-> mazeData, serial |-> 1])
              /\ maze = m
              /\ mazeLevel = 1
              /\ player = p
              /\ cellSize = levelCellSize(m)
              /\ view = renderMaze(m, p, levelCellSize(m))
    /\ gameState = [NewGameState(storage) EXCEPT !.maxLevel = 1,
                                                !.currentScreen = "game"]
    /\ discovery = [running |-> FALSE, i |-> 2, maxLevel |-> 1]
    /\ decodes = <<1, 2>>
    /\ pending = {}
    /\ moves = 0
    /\ lastPath = Null
    /\ lastLoad = Null
    /\ moveTimer = Null
    /\ lastMove = Null
    /\ lastInput = Null
    /\ frame = Null
    /\ written = <<>>
    /\ nextBtn = ""

inputUnchanged ==
    UNCHANGED <<level, file, result, calls, probe, files, lastPath, frame, maze, mazeLevel,
                cellSize, parsedMazes, pending, decodes, discovery, lastLoad>>

\* a handler that returns before movePlayer
noMove == UNCHANGED <<gameState, player, view, storage, written, nextBtn, lastMove, moves>>

\* the keydown listener, lines 429-436.  On the clear screen the key goes to
\* handleClearScreenKeyPress, which moves the focus or clicks the focused
\* button: that click is the click action of the button
KeyDown ==
    \E key \in Keys :
      LET d == IF gameState.currentScreen = "game" THEN handleGameKeyPress(key)
                                                   ELSE Null
      IN  /\ lastInput' = [source |-> "key", name |-> key, issued |-> d]
          /\ IF d = Null
               THEN noMove /\ UNCHANGED moveTimer
               ELSE /\ moves < MaxInputMoves
                    /\ moves' = moves + 1
                    /\ movePlayer(d[1], d[2])
                    /\ moveTimer' = movePlayerTimer(d[1], d[2])
          /\ inputUnchanged

\* startMove, lines 451-465: mousedown or touchstart on a control button
ButtonDown ==
    \E id \in DOMAIN controlButtons :
      LET dx == controlButtons[id].dx
          dy == controlButtons[id].dy
          runs == gameState.currentScreen = "game" /\ moveTimer = Null
      IN  /\ lastInput' = [source |-> "button", name |-> id,
                           issued |-> IF runs THEN <<dx, dy>> ELSE Null]
          /\ IF runs
               THEN /\ moves < MaxInputMoves
                    /\ moves' = moves + 1
                    /\ movePlayer(dx, dy)
                    /\ moveTimer' = [dx |-> dx, dy |-> dy]
               ELSE noMove /\ UNCHANGED moveTimer
          /\ inputUnchanged

\* stopMove, lines 468-473: mouseup, mouseleave, touchend or touchcancel
ButtonUp ==
    /\ moveTimer # Null
    /\ moveTimer' = Null
    /\ noMove
    /\ UNCHANGED lastInput
    /\ inputUnchanged

\* the callback of setInterval, lines 462-464
TimerTick ==
    /\ moveTimer # Null
    /\ moves < MaxInputMoves
    /\ moves' = moves + 1
    /\ lastInput' = [source |-> "tick", name |-> "interval",
                     issued |-> <<moveTimer.dx, moveTimer.dy>>]
    /\ movePlayer(moveTimer.dx, moveTimer.dy)
    /\ moveTimer' = movePlayerTimer(moveTimer.dx, moveTimer.dy)
    /\ inputUnchanged

NextInput ==
    \/ KeyDown
    \/ ButtonDown
    \/ ButtonUp
    \/ TimerTick
    \/ ClickBackToSelect
    \/ ClickLevel

SpecInput == InitInput /\ [][NextInput]_vars

\* ------------------------------------- the first variant, src/unnamed/part_001
\* GameState constructor, part_001 line 5
OLD_MAX_LEVEL == 6

\* handleKeyPress, part_001 lines 430-457
handleKeyPress(key) ==
    LET k == toLowerCase(key)
    IN  CASE k \in {"w", "arrowup"} -> <<0, -1>>
          [] k \in {"s", "arrowdown"} -> <<0, 1>>
          [] k \in {"a", "arrowleft"} -> <<-1, 0>>
          [] k \in {"d", "arrowright"} -> <<1, 0>>
          [] OTHER -> Null

\* movePlayer, part_001 lines 458-466, with completeLevel, lines 468-482:
\* the only test is this.player; there is no sound and no timer
oldMovePlayer(dx, dy) ==
    IF player = Null
      THEN /\ lastMove' = [screen |-> gameState.currentScreen, dx |-> dx,
                           dy |-> dy, before |-> player, after |-> player,
                           sounds |-> <<>>]
           /\ UNCHANGED <<gameState, player, view, storage, written, nextBtn>>
      ELSE LET r == move(player, dx, dy, maze)
               atGoal == isAtGoal(r.player, maze)
           IN  /\ player' = r.player
               /\ lastMove' = [screen |-> gameState.currentScreen, dx |-> dx,
                               dy |-> dy, before |-> player, after |-> r.player,
                               sounds |-> <<>>]
               /\ view' = IF r.ret THEN renderWholeMaze(maze, r.player, cellSize)
                                   ELSE view
               /\ IF r.ret /\ atGoal
                    THEN LET c == completeLevel(gameState, gameState.currentLevel,
                                                r.player.visitedCells)
                         IN  /\ gameState' = showScreen(c.gameState, "clear")
                             /\ storage' = c.storage
                             /\ nextBtn' = nextBtnDisplay(gameState)
                             /\ written' =
                                   (LevelKeys[gameState.currentLevel]
                                       :> r.player.visitedCells) @@ written
                    ELSE UNCHANGED <<gameState, storage, written, nextBtn>>

\* level 1 has just been started (startLevel, part_001 lines 386-422)
InitOld ==
    /\ level = 1
    /\ file = NoFile
    /\ result = Null
    /\ calls = <<>>
    /\ probe = Null
    /\ storage = Null
    /\ \E img \in InputImages :
          LET mazeData == parseMazeFromImage(getMazeConfig(1).filename, img).data
              m == NewMaze(mazeData)
              p == NewPlayer(m.start.x, m.start.y)
          IN  /\ files = [given |-> (1 :> img), rest |-> NoFile]
              /\ parsedMazes = <<>>
              /\ maze = m
              /\ mazeLevel = 1
              /\ player = p
              /\ cellSize = scriptCellSize(m)
              /\ view = renderWholeMaze(m, p, scriptCellSize(m))
    /\ gameState = [NewGameState(storage) EXCEPT !.maxLevel = OLD_MAX_LEVEL,
                                                !.currentScreen = "game"]
    /\ discovery = Null
    /\ decodes = <<1>>
    /\ pending = {}
    /\ moves = 0
    /\ lastPath = Null
    /\ lastLoad = Null
    /\ moveTimer = Null
    /\ lastMove = Null
    /\ lastInput = Null
    /\ frame = Null
    /\ written = <<>>
    /\ nextBtn = ""

\* the keydown listener, part_001 lines 268-272
OldKeyDown ==
    \E key \in Keys :
      LET d == IF gameState.currentScreen = "game" THEN handleKeyPress(key)
                                                   ELSE Null
      IN  /\ lastInput' = [source |-> "key", name |-> key, issued |-> d]
          /\ IF d = Null
               THEN noMove
               ELSE /\ moves < MaxOldMoves
                    /\ moves' = moves + 1
                    /\ oldMovePlayer(d[1], d[2])
          /\ UNCHANGED moveTimer
          /\ inputUnchanged

\* the click listeners of the four control buttons, part_001 lines 274-278:
\* movePlayer is called whatever the current screen is
OldButtonClick ==
    \E id \in DOMAIN controlButtons :
      LET dx == controlButtons[id].dx
          dy == controlButtons[id].dy
      IN  /\ lastInput' = [source |-> "button", name |-> id, issued |-> <<dx, dy>>]
          /\ moves < MaxOldMoves
          /\ moves' = moves + 1
          /\ oldMovePlayer(dx, dy)
          /\ UNCHANGED moveTimer
          /\ inputUnchanged

NextOld ==
    \/ OldKeyDown
    \/ OldButtonClick

SpecOld == InitOld /\ [][NextOld]_vars

\* ============================================================== properties
\* colour of the pixel at (x, y), read straight from the bitmap
PixelRGB(img, x, y) ==
    LET i == (y * img.width + x) * 4
    IN  <<img.data[i + 1], img.data[i + 2], img.data[i + 3]>>

\* coordinates of the pixels of one colour
PixelsOf(img, colour) ==
    {c \in (0..(img.width - 1)) \X (0..(img.height - 1)) :
        PixelRGB(img, c[1], c[2]) = colour}

\* the last coordinate of a non-empty set in row-major order
LastRowMajor(S) ==
    CHOOSE c \in S : \A d \in S : d[2] < c[2] \/ (d[2] = c[2] /\ d[1] <= c[1])

Decoded == result # Null /\ result.ok
LandmarkFailure == result # Null /\ file.exists /\ ~result.ok
WallCells(d) == {<<d.walls[k].x, d.walls[k].y>> : k \in 1..Len(d.walls)}
Candidate(c) == [x |-> c.before.x + c.dx, y |-> c.before.y + c.dy]

\* ---- C1: Player.move(dx,dy,maze) returns true exactly when the candidate
\* (x+dx, y+dy) is not a wall of the maze; then the new position is the
\* candidate and the new visited set is the old one plus the candidate.
C1_MoveCommits ==
    \A k \in 1..Len(calls) :
        LET c == calls[k]
            cand == Candidate(c)
        IN  /\ c.ret = (<<cand.x, cand.y>> \notin PixelsOf(file, Black))
            /\ c.ret = ~isWall(maze, cand.x, cand.y)
            /\ c.ret => /\ c.after.x = cand.x
                        /\ c.after.y = cand.y
                        /\ c.after.visitedCells
                             = c.before.visitedCells \cup {CellKey(cand.x, cand.y)}

\* an accepted move onto a cell outside the bitmap that was not visited before
C1_Witness ==
    /\ Len(calls) >= 1
    /\ calls[Len(calls)].ret
    /\ player.x = -1
    /\ Cardinality(player.visitedCells)
         = Cardinality(calls[Len(calls)].before.visitedCells) + 1

\* ---- C2: a rejected move returns false and leaves position and visited set
\* unchanged; the same rejected move repeated any number of times never
\* changes the position or the size of the visited set.
C2_RejectedMoveIsNoOp ==
    /\ \A k \in 1..Len(calls) :
          ~calls[k].ret =>
             /\ calls[k].after = calls[k].before
             /\ <<Candidate(calls[k]).x, Candidate(calls[k]).y>>
                   \in PixelsOf(file, Black)
    /\ \A j \in 1..Len(calls) : \A k \in j..Len(calls) :
          (\A i \in j..k : /\ ~calls[i].ret
                           /\ calls[i].dx = calls[j].dx
                           /\ calls[i].dy = calls[j].dy)
            => /\ calls[k].after.x = calls[j].before.x
               /\ calls[k].after.y = calls[j].before.y
               /\ Cardinality(calls[k].after.visitedCells)
                    = Cardinality(calls[j].before.visitedCells)

\* the same move rejected three times in a row
C2_Witness ==
    /\ Len(calls) = 3
    /\ \A k \in 1..3 : /\ ~calls[k].ret
                       /\ calls[k].dx = calls[1].dx
                       /\ calls[k].dy = calls[1].dy
    /\ player = calls[1].before

\* ---- C3: in every state of a level session the player's position is a
\* member of the visited set (after construction and after every move).
C3_PositionVisited ==
    player # Null => CellKey(player.x, player.y) \in player.visitedCells

\* a session in which a move was accepted and the next one rejected
C3_Witness ==
    /\ Len(calls) >= 2
    /\ calls[Len(calls) - 1].ret
    /\ ~calls[Len(calls)].ret
    /\ player.x # maze.start.x

\* ---- C4: within one level session the visited set only grows: each later
\* visited set contains every earlier one and is at least as large.
C4_VisitedGrows ==
    \A j \in 1..Len(calls) :
        /\ NewPlayer(maze.start.x, maze.start.y).visitedCells
              \subseteq calls[j].before.visitedCells
        /\ \A k \in j..Len(calls) :
              /\ calls[j].before.visitedCells \subseteq calls[k].after.visitedCells
              /\ calls[j].after.visitedCells \subseteq calls[k].after.visitedCells
              /\ Cardinality(calls[j].before.visitedCells)
                    <= Cardinality(calls[k].after.visitedCells)
              /\ calls[k].after.visitedCells \subseteq player.visitedCells

\* two accepted moves to new cells followed by a rejected one
C4_Witness ==
    /\ Len(calls) = 3
    /\ calls[1].ret /\ calls[2].ret /\ ~calls[3].ret
    /\ Cardinality(player.visitedCells) = 3

\* ---- C5: every descriptor of a successful decode has start and goal outside
\* the wall list and start different from goal.
C5_LandmarksNotWalls ==
    Decoded =>
        LET d == result.data
        IN  /\ <<d.start.x, d.start.y>> \notin WallCells(d)
            /\ <<d.goal.x, d.goal.y>> \notin WallCells(d)
            /\ d.start # d.goal

\* a successful decode of an image with walls
C5_Witness ==
    /\ Decoded
    /\ Len(result.data.walls) >= 2

\* ---- C6: for a loaded image, decode fails iff the image has no (0,0,255)
\* pixel or no (255,0,0) pixel.
C6_FailsIffLandmarkMissing ==
    (result # Null /\ file.exists) =>
        (~result.ok <=> (PixelsOf(file, Blue) = {} \/ PixelsOf(file, Red) = {}))

\* a decode that failed on an image with a goal pixel and no start pixel
C6_Witness ==
    /\ LandmarkFailure
    /\ PixelsOf(file, Blue) = {}
    /\ PixelsOf(file, Red) # {}

\* bitmaps lacking the start, the goal, or both
NoStartImage == ImageOf(1, 1, [i \in {0} |-> Red])
NoGoalImage  == ImageOf(1, 1, [i \in {0} |-> Blue])
NoLandmarkImage == ImageOf(1, 1, [i \in {0} |-> White])
LandmarklessImages == {NoStartImage, NoGoalImage, NoLandmarkImage}

MissingLandmarks(img) ==
    {n \in {"start", "goal"} :
        PixelsOf(img, IF n = "start" THEN Blue ELSE Red) = {}}

ErrorOf(lv, img) == parseMazeFromImage(getMazeConfig(lv).filename, img).error

C8_WallsAreBlackPixels ==
    Decoded =>
        /\ result.data.width = file.width
        /\ result.data.height = file.height
        /\ WallCells(result.data) = PixelsOf(file, Black)
        /\ Len(result.data.walls) = Cardinality(PixelsOf(file, Black))

\* a decoded image with a black pixel and a near-black one
C8_Witness ==
    /\ Decoded
    /\ PixelsOf(file, Black) # {}
    /\ PixelsOf(file, NearBlack) # {}

\* ---- C9: with several start (goal) pixels the decoded start (goal) is the
\* last one in row-major order, and the duplicates do not make decode fail.
C9_LastLandmarkWins ==
    /\ Decoded =>
          /\ <<result.data.start.x, result.data.start.y>>
                = LastRowMajor(PixelsOf(file, Blue))
          /\ <<result.data.goal.x, result.data.goal.y>>
                = LastRowMajor(PixelsOf(file, Red))
    /\ (result # Null /\ file.exists
          /\ PixelsOf(file, Blue) # {} /\ PixelsOf(file, Red) # {}) => result.ok

\* two start pixels, the later one in a lower row and further left
C9_Witness ==
    /\ Decoded
    /\ \E c \in PixelsOf(file, Blue) :
          /\ c[1] > result.data.start.x
          /\ c[2] < result.data.start.y

\* ---- C10: isWall(x,y) is true iff (x,y) is in the wall set, hence false for
\* every out-of-bounds coordinate; isValidMove(x,y) is true iff 0<=x<width,
\* 0<=y<height and (x,y) is not a wall.
C10_MazeQueries ==
    probe # Null =>
        LET inBounds == /\ 0 <= probe.x /\ probe.x < file.width
                        /\ 0 <= probe.y /\ probe.y < file.height
            wall == <<probe.x, probe.y>> \in WallCells(result.data)
        IN  /\ probe.isWall = wall
            /\ ~inBounds => ~probe.isWall
            /\ probe.isValidMove = (inBounds /\ ~wall)

\* a query just past the right edge of the maze
C10_Witness ==
    /\ probe # Null
    /\ probe.x = maze.width
    /\ probe.y = 0
    /\ ~probe.isWall
    /\ ~probe.isValidMove

\* ---- C11: a visited set turned into the persisted path list by completeLevel
\* and read back by getCompletedPath, also after the store was saved as JSON
\* and loaded again, is the original set.
C11_PathRoundTrip ==
    /\ lastPath # Null => lastPath.path = lastPath.given
    /\ \A lv \in 1..(MaxLevel + 1) :
          /\ getCompletedPath(gameState, lv) = WrittenPath(lv)
          /\ storage # Null =>
                getCompletedPath(NewGameState(storage), lv) = WrittenPath(lv)

\* a path of two cells or more read back from a store that was loaded from JSON
C11_Witness ==
    /\ lastPath # Null
    /\ Cardinality(lastPath.path) >= 2
    /\ storage # Null
    /\ gameState = NewGameState(storage)
    /\ Cardinality(DOMAIN written) >= 2

\* ---- C12: when a level has just been completed, the progress store holds
\* completed = true and the player's visited set as path for that level, the
\* storage item written in the same step is the in-memory progress, and a
\* store loaded from that item gives the same path set.
C12_CompletionStored ==
    /\ gameState.currentScreen = "clear" =>
          LET lv == gameState.currentLevel
          IN  /\ isLevelCompleted(gameState, lv)
              /\ gameState.progress[LevelKeys[lv]].completed = TRUE
              /\ getCompletedPath(gameState, lv) = player.visitedCells
              /\ storage = JSONstringify(gameState.progress)
              /\ getCompletedPath(NewGameState(storage), lv) = player.visitedCells
    /\ storage # Null => JSONparse(storage) = gameState.progress

\* the second level completed by a detour while the first is in the store
C12_Witness ==
    /\ gameState.currentScreen = "clear"
    /\ gameState.currentLevel = 2
    /\ isLevelCompleted(gameState, 1)
    /\ Cardinality(player.visitedCells) >= 3
    /\ storage = JSONstringify(gameState.progress)

\* this step is the completion of level lv: the move that reaches the goal
CompletionStep(lv) ==
    /\ gameState.currentScreen = "game"
    /\ gameState'.currentScreen = "clear"
    /\ gameState.currentLevel = lv
    /\ getCompletedPath(gameState', lv) = player'.visitedCells

\* ---- C13 (as stated): once a level's entry is written with path P, the
\* stored path of that level is P in every later state, whatever moves,
\* restarts and completions of the same or of other levels follow.
C13_StoredPathNeverChanges ==
    [][\A lv \in Levels :
          HasProgress(gameState, lv) =>
             /\ HasProgress(gameState', lv)
             /\ getCompletedPath(gameState', lv) = getCompletedPath(gameState, lv)
      ]_vars

\* ---- C13 (amended): a level's stored path is kept through moves, restarts,
\* completions of other levels and page reloads; only a later completion of
\* that same level replaces it, by the visited set of that completion.
C13_StoredPathKeptUntilRecompleted ==
    [][\A lv \in Levels :
          HasProgress(gameState, lv) =>
             /\ HasProgress(gameState', lv)
             /\ \/ getCompletedPath(gameState', lv) = getCompletedPath(gameState, lv)
                \/ CompletionStep(lv)
      ]_vars

\* level 1 is played again after levels 1 and 2 were completed, and the
\* player has left the stored path
C13_Witness ==
    /\ gameState.currentScreen = "game"
    /\ gameState.currentLevel = 1
    /\ isLevelCompleted(gameState, 1)
    /\ isLevelCompleted(gameState, 2)
    /\ Cardinality(player.visitedCells) >= 2
    /\ ~(player.visitedCells \subseteq getCompletedPath(gameState, 1))

\* the camera follows the player (the else branch of line 852)
FollowMode == maze # Null /\ ~FitsView(maze)

PlayerInBounds ==
    /\ player.x >= 0 /\ player.x < maze.width
    /\ player.y >= 0 /\ player.y < maze.height

\* origin is a window origin of an axis of axisSize cells that holds cell c
AxisWindowOk(origin, axisSize, c) ==
    /\ origin >= 0
    /\ origin <= axisSize - MAX_VISIBLE_CELLS
    /\ origin <= c
    /\ c <= origin + MAX_VISIBLE_CELLS - 1

\* ---- C14: in follow mode (width > V or height > V), for every in-bounds
\* player position and on each axis, the window origin is >= 0 and
\* <= axisSize - V and the player's cell is within [origin, origin + V - 1],
\* also when only one axis is longer than V.
C14_FollowWindowInBounds ==
    (FollowMode /\ PlayerInBounds) =>
        /\ AxisWindowOk(view.startX, maze.width, player.x)
        /\ AxisWindowOk(view.startY, maze.height, player.y)

\* the whole maze fits the window (the then branch of line 852)
FitMode == maze # Null /\ FitsView(maze)

\* the fraction f is the number n / d
FracIs(f, n, d) == f.num * d = n * f.den

\* twice the offset plus the drawn length of dim cells is the surface side
Centred(offset, dim) ==
    FracPlus(FracTimes(2, offset), FracTimes(dim, cellSize))
        = Frac(CONTAINER_SIZE, 1)

C16_FailedLoadKeepsLevel ==
    [][lastLoad' # lastLoad =>
          /\ maze' = maze
          /\ player' = player
          /\ ~lastLoad'.escaped
          /\ lastLoad'.alert # ""
          /\ gameState'.currentScreen = "level-select"
      ]_vars

\* level 2 failed to load while the maze and the player of the completed
\* level 1 are still there
C16_Witness ==
    /\ lastLoad # Null
    /\ lastLoad.level = 2
    /\ maze # Null
    /\ player # Null
    /\ isAtGoal(player, maze)
    /\ isLevelCompleted(gameState, 1)
    /\ gameState.currentScreen = "level-select"

\* m is the maze of a completely decoded image of one of the levels
FullyDecoded(m) ==
    \E lv \in 1..SCRIPT_MAX_LEVEL :
        LET r == parseMazeFromImage(MAZE_CONFIG(lv).filename, FileOf(lv))
        IN  r.ok /\ m = NewMaze(r.data)

\* ---- C17: whenever the screen is 'game', the only screen on which moves
\* and renders run, maze and player exist and the maze was built from a
\* completely decoded descriptor, under every interleaving of input events
\* with pending decodes.
C17_GameScreenHasDecodedMaze ==
    gameState.currentScreen = "game" =>
        /\ maze # Null
        /\ player # Null
        /\ FullyDecoded(maze)
        /\ view # Null

\* a move was made on the game screen while another decode is still pending
C17_Witness ==
    /\ gameState.currentScreen = "game"
    /\ pending # {}
    /\ moves >= 1
    /\ maze # Null
    /\ Cardinality(player.visitedCells) >= 2

\* how often parseMazeFromImage was called for level lv since the page load
DecodeCount(lv) == Cardinality({k \in DOMAIN decodes : decodes[k] = lv})

\* ---- C18: within one session the decoder is invoked at most once for each
\* level, under every interleaving of preview rendering, level starts and
\* discovery, also when two of them ask for the same uncached level before
\* the first decode has completed.
C18_DecodeOncePerLevel ==
    \A lv \in 1..MAX_CHECK_LIMIT : DecodeCount(lv) <= 1

\* ---- C19: the maze cache changes only by the insertion of a descriptor for
\* a level that has none; a cached descriptor is never removed and never
\* replaced by another one, and a failed decode inserts nothing.
C19_CacheInsertOnly ==
    [][/\ \A lv \in DOMAIN parsedMazes :
             /\ lv \in DOMAIN parsedMazes'
             /\ parsedMazes'[lv] = parsedMazes[lv]
       /\ \A lv \in DOMAIN parsedMazes' :
             parseMazeFromImage(getMazeConfig(lv).filename, FileOf(lv)).ok
      ]_vars

\* maps/<lv>.png decodes
DecodesOk(lv) == parseMazeFromImage(getMazeConfig(lv).filename, FileOf(lv)).ok

\* the number of leading levels that decode, at most MAX_CHECK_LIMIT
LeadingLevels ==
    CHOOSE n \in 0..MAX_CHECK_LIMIT :
        /\ \A k \in 1..n : DecodesOk(k)
        /\ n = MAX_CHECK_LIMIT \/ ~DecodesOk(n + 1)

DiscoveryEnded == discovery # Null /\ ~discovery.running

\* ---- C20: level discovery terminates, and when it has ended maxLevel is
\* the largest n, 0 <= n <= 99, such that every level 1..n decodes: the first
\* failing level ends it, levels after a gap are not counted, and every level
\* 1..maxLevel has its descriptor in the cache.
C20_DiscoveryFindsLeadingLevels ==
    /\ <>DiscoveryEnded
    /\ [](DiscoveryEnded =>
            /\ gameState.maxLevel = LeadingLevels
            /\ gameState.maxLevel \in 0..MAX_CHECK_LIMIT
            /\ \A lv \in 1..gameState.maxLevel :
                  /\ lv \in DOMAIN parsedMazes
                  /\ parsedMazes[lv].data =
                        parseMazeFromImage(getMazeConfig(lv).filename,
                                           FileOf(lv)).data
            /\ \A lv \in DOMAIN parsedMazes : lv <= gameState.maxLevel)

\* discovery ended at a gap: level 1 decodes, level 2 does not, and the
\* levels after it would decode
C20_Witness ==
    /\ DiscoveryEnded
    /\ gameState.maxLevel = 1
    /\ ~DecodesOk(2)
    /\ DecodesOk(MaxLevel + 1)
    /\ DOMAIN parsedMazes = {1}

\* how many times sound e is in the sequence s
Emitted(s, e) == Cardinality({i \in DOMAIN s : s[i] = e})

\* C21: a movePlayer call on the game screen plays exactly one of 'move' (the
\* position changed) and 'hit' (it did not), plays 'clear' exactly when the
\* position changed and the new position is the goal, and a movePlayer call on
\* any other screen plays nothing
C21_MoveEvents ==
    [][moves' # moves =>
          LET s == lastMove'.sounds
              accepted == player'.x # player.x \/ player'.y # player.y
              onGoal == player'.x = maze.goal.x /\ player'.y = maze.goal.y
          IN  IF gameState.currentScreen = "game"
                THEN /\ Emitted(s, "move") + Emitted(s, "hit") = 1
                     /\ Emitted(s, "move") = 1 <=> accepted
                     /\ Emitted(s, "clear") = 1 <=> (accepted /\ onGoal)
                     /\ Emitted(s, "clear") <= 1
                ELSE s = <<>>]_vars

\* a move into the wall of the corner level was answered by 'hit'
C21_Witness ==
    /\ lastMove # Null
    /\ lastMove.screen = "game"
    /\ lastMove.sounds = <<"hit">>
    /\ maze.width = 2 /\ maze.height = 2

\* the keys the control scheme names
MovementKeys ==
    {"w", "a", "s", "d", "W", "A", "S", "D",
     "ArrowUp", "ArrowDown", "ArrowLeft", "ArrowRight"}

\* C26: the movePlayer call made by a keydown, by a press of a control button
\* or by a tick of its interval has dx and dy in {-1, 0, 1} with exactly one of
\* them non-zero, and a key that is not a movement key makes no call
C26_UnitCardinalMoves ==
    lastInput # Null =>
      /\ lastInput.issued # Null =>
            /\ lastInput.issued[1] \in {-1, 0, 1}
            /\ lastInput.issued[2] \in {-1, 0, 1}
            /\ (lastInput.issued[1] = 0) # (lastInput.issued[2] = 0)
      /\ (lastInput.source = "key" /\ lastInput.name \notin MovementKeys)
            => lastInput.issued = Null

\* the interval of a held down-btn has repeated its move and the player
\* followed it
C26_Witness ==
    /\ lastInput # Null
    /\ lastInput.source = "tick"
    /\ lastInput.issued = <<0, 1>>
    /\ lastMove.after.x = 0 /\ lastMove.after.y = 1

\* the cells of the window of the last frame
WindowCells ==
    (frame.window.startX..frame.window.endX)
        \X (frame.window.startY..frame.window.endY)

\* cell c is in the 3x3 neighbourhood of the player the frame was painted for
InSpotlight(c) ==
    /\ Abs(c[1] - frame.player.x) <= 1
    /\ Abs(c[2] - frame.player.y) <= 1

\* cell c is in the visited set of the player the frame was painted for
InVisited(c) == CellKey(c[1], c[2]) \in frame.player.visitedCells

\* cell c is a wall of the maze the frame was painted for
WallCell(c) == CellKey(c[1], c[2]) \in frame.maze.walls

\* the visibility rule of the main view for cell c
MainViewRule(c) ==
    /\ c \in DOMAIN frame.main <=> (InSpotlight(c) \/ InVisited(c))
    /\ (c \in DOMAIN frame.main /\ ~WallCell(c)) =>
          /\ frame.main[c] = "#fff" <=> InSpotlight(c)
          /\ frame.main[c] = "#f0f0f0" <=> (InVisited(c) /\ ~InSpotlight(c))

\* cell c belongs to the maze the frame was painted for
MazeCell(c) ==
    /\ 0 <= c[1] /\ c[1] < frame.maze.width
    /\ 0 <= c[2] /\ c[2] < frame.maze.height

\* the rule holds for the cells of the window that belong to the maze
MainViewRuleInsideMaze ==
    frame # Null =>
      \A c \in WindowCells : MazeCell(c) => MainViewRule(c)

C23_MinimapVisibility ==
    frame # Null =>
      \A c \in (0..(frame.maze.width - 1)) \X (0..(frame.maze.height - 1)) :
        IF WallCell(c) THEN c \in DOMAIN frame.minimap
                       ELSE c \in DOMAIN frame.minimap <=> InVisited(c)

\* C24: whatever maze was decoded and whatever moves were made, the position
\* committed by Player.move lies in [0, width) x [0, height)
C24_MoveStaysInBounds ==
    player # Null =>
      /\ 0 <= player.x /\ player.x < maze.width
      /\ 0 <= player.y /\ player.y < maze.height

\* every cell on the border of the maze is a wall
BorderWalled ==
    \A x \in 0..(maze.width - 1), y \in 0..(maze.height - 1) :
      (x = 0 \/ x = maze.width - 1 \/ y = 0 \/ y = maze.height - 1)
          => CellKey(x, y) \in maze.walls

\* the start of the maze lies on the grid
StartInBounds ==
    /\ 0 <= maze.start.x /\ maze.start.x < maze.width
    /\ 0 <= maze.start.y /\ maze.start.y < maze.height

\* C25: in a maze whose border cells are all walls and whose start is on the
\* grid the player stays on the grid after any sequence of single-step
\* cardinal moves
C25_WalledMazeKeepsPlayerInside ==
    (player # Null /\ BorderWalled /\ StartInBounds) =>
      /\ 0 <= player.x /\ player.x < maze.width
      /\ 0 <= player.y /\ player.y < maze.height
      /\ \A k \in DOMAIN calls :
            /\ 0 <= calls[k].after.x /\ calls[k].after.x < maze.width
            /\ 0 <= calls[k].after.y /\ calls[k].after.y < maze.height

\* a session in a walled maze with an accepted move and a move rejected by
\* the border
C25_Witness ==
    /\ player # Null
    /\ BorderWalled
    /\ Len(calls) = MaxSteps
    /\ \E k \in DOMAIN calls : calls[k].ret
    /\ \E k \in DOMAIN calls :
          /\ ~calls[k].ret
          /\ LET tx == calls[k].before.x + calls[k].dx
                 ty == calls[k].before.y + calls[k].dy
             IN  tx = 0 \/ ty = 0 \/ tx = maze.width - 1 \/ ty = maze.height - 1

\* a step in which startLevel succeeds: the game screen is shown
StartLevelStep ==
    /\ gameState.currentScreen # "game"
    /\ gameState'.currentScreen = "game"

\* C27: right after a successful startLevel the player stands on the start of
\* the maze and the visited set is exactly {start}; no other handler removes a
\* cell from the visited set of the session (a page reload ends the session)
C27_FreshSession ==
    [][/\ StartLevelStep =>
            /\ player'.x = maze'.start.x
            /\ player'.y = maze'.start.y
            /\ player'.visitedCells = {CellKey(maze'.start.x, maze'.start.y)}
       /\ (player # Null /\ ~StartLevelStep) =>
            \/ player' = Null /\ discovery'.running
            \/ player' # Null /\ player.visitedCells \subseteq player'.visitedCells
      ]_vars

\* level 2 has just been started after a session on level 1 that visited
\* more than the start cell
C27_Witness ==
    /\ gameState # Null
    /\ gameState.currentScreen = "game"
    /\ gameState.currentLevel = 2
    /\ moves > 0
    /\ LevelKeys[1] \in DOMAIN written
    /\ Cardinality(written[LevelKeys[1]]) >= 2
    /\ player.visitedCells = {CellKey(maze.start.x, maze.start.y)}

\* level n had been handed to completeLevel when the store was last queried
CompletedBefore(n) == n >= 1 /\ LevelKeys[n] \in lastPath.done

\* C28: isLevelUnlocked(n) is truthy iff n = 1 or level n - 1 has been
\* completed, isLevelCompleted(n) is truthy iff level n has been completed,
\* and getCompletedPath(n) is the empty set for a level without an entry
C28_ProgressQueries ==
    lastPath # Null =>
      /\ lastPath.unlocked <=>
            (lastPath.level = 1 \/ CompletedBefore(lastPath.level - 1))
      /\ lastPath.completed <=> CompletedBefore(lastPath.level)
      /\ ~CompletedBefore(lastPath.level) => lastPath.path = {}

\* level 2 was found unlocked, not completed and without a path after level 1
\* had been completed
C28_Witness ==
    /\ lastPath # Null
    /\ lastPath.level = 2
    /\ lastPath.unlocked
    /\ ~lastPath.completed
    /\ lastPath.path = {}
    /\ LevelKeys[1] \in lastPath.done

\* a step of movePlayer that does not leave the player on the goal
MoveShortOfGoal ==
    /\ moves' # moves
    /\ ~(player'.x = maze.goal.x /\ player'.y = maze.goal.y)

\* C29: the Maze of a session keeps its width, height, start, goal and walls
\* through every move, render, completion and preview (it is replaced only by
\* the Maze of the next startLevel or dropped by a page reload), and a move
\* that does not reach the goal leaves the progress and its stored copy alone
C29_MazeImmutable ==
    [][/\ maze # Null =>
            \/ maze' = maze
            \/ StartLevelStep
            \/ maze' = Null /\ discovery'.running
       /\ MoveShortOfGoal =>
            /\ gameState'.progress = gameState.progress
            /\ storage' = storage
      ]_vars

\* level 2 is being played with level 1 in the store, and the last move was
\* accepted without reaching the goal
C29_Witness ==
    /\ gameState # Null
    /\ gameState.currentScreen = "game"
    /\ gameState.currentLevel = 2
    /\ storage # Null
    /\ lastMove # Null
    /\ lastMove.sounds = <<"move">>
    /\ lastMove.after = player
    /\ maze.height = 2

\* C30: in a session on a decoded maze the player never stands on a wall cell
\* and no wall cell is in the visited set
C30_NeverOnWall ==
    player # Null =>
      /\ CellKey(player.x, player.y) \notin maze.walls
      /\ player.visitedCells \cap maze.walls = {}

\* a session on a maze with a wall in which a move into the wall was refused
\* and another move was accepted
C30_Witness ==
    /\ player # Null
    /\ maze.walls # {}
    /\ Cardinality(player.visitedCells) >= 2
    /\ \E k \in DOMAIN calls :
          /\ ~calls[k].ret
          /\ CellKey(calls[k].before.x + calls[k].dx,
                     calls[k].before.y + calls[k].dy) \in maze.walls

\* C31: whenever the game screen is shown, the maze in play was decoded from
\* the image of gameState.currentLevel, whatever the order in which the
\* decodes of overlapping startLevel calls settle
C31_MazeOfCurrentLevel ==
    (gameState # Null /\ gameState.currentScreen = "game") =>
        mazeLevel = gameState.currentLevel

\* the levels with a completed entry in the progress object
CompletedLevels ==
    {n \in 1..MAX_CHECK_LIMIT : isLevelCompleted(gameState, n)}

\* C32: the completed levels are a prefix 1..k of the levels: no level n > 1
\* is completed while level n - 1 is not
C32_CompletedPrefix ==
    gameState # Null =>
      \A n \in CompletedLevels : n = 1 \/ (n - 1) \in CompletedLevels


\* C33: a level session is completed at most once: the accepted move that
\* reaches the goal shows the clear screen, and while the clear screen stays
\* up no step (key press, button press, timer tick) changes the player's
\* position or visited set or writes a completion again
C33_CompletedOnce ==
    [][(gameState # Null /\ gameState' # Null) =>
         /\ (maze' = maze /\ player # Null /\ player' # player
               /\ isAtGoal(player', maze))
              => gameState'.currentScreen = "clear"
         /\ (gameState.currentScreen = "clear"
               /\ gameState'.currentScreen = "clear")
              => (player' = player /\ written' = written /\ storage' = storage)
      ]_vars


\* the three parts of C34, as conditions on one step
OneTimerStep == (moveTimer # Null /\ moveTimer' # Null) => moveTimer' = moveTimer

GoalCancelsTimerStep ==
    (maze' = maze /\ player # Null /\ player' # player /\ isAtGoal(player', maze))
        => moveTimer' = Null

TimerOnlyInGameStep ==
    (gameState' # Null /\ moveTimer' # Null) => gameState'.currentScreen = "game"

\* C34: at most one hold-to-repeat timer exists (a press while one is active
\* starts no second one), reaching the goal leaves no timer behind, and a
\* timer is active only while the current screen is 'game'
C34_RepeatTimer ==
    [][OneTimerStep /\ GoalCancelsTimerStep /\ TimerOnlyInGameStep]_vars


UnlockedLevels == {n \in 1..MAX_CHECK_LIMIT : isLevelUnlocked(gameState, n)}

\* C35: progress is monotone: a level that is completed stays completed and
\* a level that is unlocked stays unlocked, whatever the step (move, restart,
\* failed load, further completion, reload of the page)
C35_ProgressMonotone ==
    [][(gameState # Null /\ gameState' # Null) =>
          /\ CompletedLevels \subseteq CompletedLevels'
          /\ UnlockedLevels \subseteq UnlockedLevels']_vars

\* level 1 was completed and stayed so through the start of level 2 and the
\* completion of level 2
C35_Witness ==
    /\ gameState # Null
    /\ gameState.currentScreen = "clear"
    /\ gameState.currentLevel = 2
    /\ CompletedLevels = {1, 2}
    /\ UnlockedLevels = {1, 2, 3}


\* the step in which a level is completed
LevelCompletedStep ==
    /\ gameState # Null
    /\ gameState' # Null
    /\ gameState.currentScreen = "game"
    /\ gameState'.currentScreen = "clear"

\* the cells of the path the storage item holds for a level
PersistedCells(item, lv) ==
    LET path == loadProgress(item)[LevelKeys[lv]].path
    IN  {path[i] : i \in DOMAIN path}

\* C36: the path persisted at a level completion contains the start cell and
\* the goal cell of the maze that was traversed
C36_PathHasStartAndGoal ==
    [][LevelCompletedStep =>
          LET cells == PersistedCells(storage', gameState.currentLevel)
          IN  /\ CellKey(maze.start.x, maze.start.y) \in cells
              /\ CellKey(maze.goal.x, maze.goal.y) \in cells]_vars

\* a level of height 2 has just been completed and its path is in the store
C36_Witness ==
    /\ gameState # Null
    /\ gameState.currentScreen = "clear"
    /\ maze # Null
    /\ maze.height = 2
    /\ lastMove # Null
    /\ lastMove.sounds = <<"move", "clear">>
    /\ storage # Null
    /\ Cardinality(PersistedCells(storage, gameState.currentLevel)) >= 3


\* a step in which startLevel was called for a level beyond maxLevel
BeyondStep ==
    /\ lastInput' # lastInput
    /\ lastInput' # Null
    /\ lastInput'.source = "call"

\* C37: startLevel(level) with level > maxLevel changes nothing (currentLevel,
\* maze, player, screen and cache stay as they are); on the clear screen the
\* next-level button is shown exactly when currentLevel + 1 <= maxLevel; and
\* currentLevel never exceeds maxLevel once maxLevel >= 1
C37_LevelWithinMax ==
    [][/\ BeyondStep =>
            /\ gameState' = gameState
            /\ maze' = maze
            /\ player' = player
            /\ parsedMazes' = parsedMazes
       /\ (gameState' # Null /\ gameState'.currentScreen = "clear") =>
            (nextBtn' = "inline-block"
                <=> gameState'.currentLevel + 1 <= gameState'.maxLevel)
       /\ (gameState' # Null /\ gameState'.maxLevel >= 1) =>
            gameState'.currentLevel <= gameState'.maxLevel
      ]_vars

\* the last level has been completed, the next-level button is hidden, and
\* startLevel was called for the level after it
C37_Witness ==
    /\ gameState # Null
    /\ gameState.currentScreen = "clear"
    /\ gameState.maxLevel = 2
    /\ gameState.currentLevel = 2
    /\ nextBtn = "none"
    /\ lastInput # Null
    /\ lastInput.source = "call"

====
